---- MODULE Spec2Model ----
(***************************************************************************)
(* Value store, reduction cache, Bellman update and prioritized replay of  *)
(* the tabular Q-learning agent (src/src/agent.c, q_table_optimized.c).    *)
(*                                                                         *)
(* Numbers.  float values are carried as integers on a fixed-point grid:   *)
(* Q-values, rewards, learning rate and discount in units of 1/QScale,     *)
(* beta in units of 1/BetaOne, TD errors and priorities in whole units,    *)
(* alpha a whole exponent, an importance weight an exact root of a ratio.  *)
(* A product of two grid values is rounded down to the grid (FMul), which  *)
(* stands for the rounding of the float product.                           *)
(*                                                                         *)
(* Handles.  Each object is addressed through a handle that is either a    *)
(* live object (TRUE) or NULL (FALSE); a run constructs the objects of one *)
(* component and leaves the other handles NULL.                            *)
(*                                                                         *)
(* Undefined behaviour (an access outside an array, a NULL dereference)    *)
(* sets fault and returns an arbitrary value; nothing is modelled after    *)
(* a fault.                                                                *)
(***************************************************************************)
EXTENDS Integers, Sequences, FiniteSets, TLC

\* ------------------------------------------------------------------ bounds
NumStates == 2
NumActions == 2
MaxQ == 1
QScale == 2
MaxBatch == 2
MaxSample == 2
MaxUpdates == 2
NumTransitions == 1
MaxCapacity == 2
MaxSteps == 3
MaxTd == 1
MaxAlpha == 2
RandMax == 2
MaxBetaDrop == 1
NumTracked == 3
MaxVisits == 3
MaxDecayVisits == 1
MaxTrainVisits == 1
MaxLearned == 1
MaxHeap == 4
MaxHeapPriority == 2
MaxWide == 9

States == 0 .. (NumStates - 1)
Actions == 0 .. (NumActions - 1)
\* indices a caller may pass, in and out of range
StateArgs == -1 .. NumStates
ActionArgs == -1 .. NumActions
\* raw float values a caller stores into the optimized table
QValues == 0 .. MaxQ
\* the value returned for "no value": 0.0f
Zero == 0
NoRet == <<>>
Ret(v) == <<v>>

Min(a, b) == IF a < b THEN a ELSE b
Max(a, b) == IF a > b THEN a ELSE b
Abs(x) == IF x < 0 THEN -x ELSE x

\* float product of two grid values in units of 1/scale
FMul(a, b, scale) == (a * b) \div scale

VARIABLES
    \* OptimizedQTable
    qtable,             \* handle: TRUE = live table, FALSE = NULL
    data,               \* flat row-major array of num_states*num_actions floats
    cache_on,           \* max_q_cache/best_action_cache/cache_valid allocated
    max_q_cache,
    best_action_cache,
    cache_valid,
    \* QLearningAgent
    agent,              \* handle
    q_table,            \* q_table[state][action]
    learning_rate,
    discount_factor,
    last_action,
    \* PriorityExperienceBuffer
    buffer,             \* handle
    config,             \* the ReplayConfig passed to create_priority_buffer
    capacity,
    size,
    current_index,
    alpha,
    beta,
    beta_increment,
    max_priority,
    min_priority,
    global_step,
    experiences,        \* experiences[0 .. capacity-1]
    priorities,         \* priorities[0 .. capacity-1]
    heap,               \* heap[0 .. capacity-1]: slot indices, a max-heap by priority
    \* sample_priority_batch: its static batch array
    batch,
    \* ExperienceBuffer
    ebuffer,            \* handle
    eb_capacity,
    eb_size,
    eb_current_index,
    eb_experiences,
    \* QLearningAgent, exploration
    epsilon,
    epsilon_decay,
    epsilon_min,
    current_state,
    \* StateVisitTracker
    tracker,            \* handle
    visit_counts,
    total_visits,
    visit_priorities,
    exploration_bonuses,
    state_epsilons,
    state_learning_rates,
    adaptive_epsilon,
    adaptive_learning_rate,
    \* a table with rows of at least eight actions
    wide,               \* [num_actions, state, row]: row `state` holds row, the others 0.0
    \* observation of the last call
    ret,                \* the last call returned Ret(v), or NoRet when void
    fault               \* undefined behaviour has been executed

\* no table with wide rows
NoWide == [num_actions |-> 0, state |-> 0, row |-> <<>>]

qtVars == <<qtable, data, cache_on, max_q_cache, best_action_cache, cache_valid>>
agentVars == <<agent, q_table, learning_rate, discount_factor, last_action>>
perVars == <<buffer, config, capacity, size, current_index, alpha, beta,
             beta_increment, max_priority, min_priority, global_step,
             experiences, priorities>>
sampleVars == <<batch>>
ebVars == <<ebuffer, eb_capacity, eb_size, eb_current_index, eb_experiences>>
replayVars == <<perVars, sampleVars, ebVars>>
exploreVars == <<epsilon, epsilon_decay, epsilon_min, current_state>>
trackerVars == <<tracker, visit_counts, total_visits, visit_priorities,
                 exploration_bonuses, state_epsilons, state_learning_rates,
                 adaptive_epsilon, adaptive_learning_rate>>
auxVars == <<exploreVars, trackerVars>>
otherVars == <<heap, wide>>
vars == <<qtVars, agentVars, replayVars, auxVars, otherVars, ret, fault>>

\* ===================================================== OptimizedQTable
num_states == NumStates
num_actions == NumActions
state_stride == num_actions
DataSize == num_states * num_actions
DataIdx == 0 .. (DataSize - 1)

InRange(state, action) ==
    state >= 0 /\ state < num_states /\ action >= 0 /\ action < num_actions

\* state * qtable->state_stride + action
QIndexNoStride(state, action) == state + action
QIndex(state, action) == state * state_stride + action

\* get_state_row_fast: the row pointer (as an offset into data); the cached
\* pointer state_rows[state] and the computed one are the same offset
state_rows == [i \in States |-> i * state_stride]
use_row_cache == num_states <= 256
get_state_row_fast(state) ==
    IF use_row_cache /\ state < 256 /\ state \in States
    THEN state_rows[state]
    ELSE state * state_stride

\* the row of a state as the reductions read it
StateData(state) == [a \in Actions |-> data[get_state_row_fast(state) + a]]

\* running max of the standard loop: for (a = 1; a < n; a++) if (row[a] > max_q) ...
RECURSIVE ScalarMaxFrom(_, _, _)
ScalarMaxFrom(row, a, max_q) ==
    IF a >= num_actions THEN max_q
    ELSE ScalarMaxFrom(row, a + 1, IF row[a] > max_q THEN row[a] ELSE max_q)

\* running argmax of the standard loop (strict >: the first maximum is kept)
RECURSIVE ScalarArgmaxFrom(_, _, _, _)
ScalarArgmaxFrom(row, a, max_q, best_action) ==
    IF a >= num_actions THEN best_action
    ELSE IF row[a] > max_q
         THEN ScalarArgmaxFrom(row, a + 1, row[a], a)
         ELSE ScalarArgmaxFrom(row, a + 1, max_q, best_action)

ScalarMax(row) == ScalarMaxFrom(row, 1, row[0])
\* the argmax of a loop that also replaces the best action on an equal value
ScalarArgmaxLast(row) ==
    CHOOSE a \in 0 .. num_actions - 1 :
        /\ row[a] = ScalarMax(row)
        /\ \A b \in 0 .. num_actions - 1 : b > a => row[b] < row[a]
ScalarArgmax(row) == ScalarArgmaxFrom(row, 1, row[0], 0)

\* simd_max_in_row (SSE2 build: 4 lanes; the AVX2 build has 8): lane-wise max
\* over the full blocks, horizontal max of the lanes, scalar loop over the tail
simd_enabled == TRUE
SimdWidth == 4
SetMax(S) == CHOOSE m \in S : \A x \in S : m >= x
RECURSIVE TailMaxFrom(_, _, _)
TailMaxFrom(row, i, result) ==
    IF i >= num_actions THEN result
    ELSE TailMaxFrom(row, i + 1, IF row[i] > result THEN row[i] ELSE result)
simd_max_in_row(state) ==
    LET row == StateData(state)
        simd_end == (num_actions \div SimdWidth) * SimdWidth
        lane(l) == SetMax({row[i] : i \in {j \in 0 .. (simd_end - 1) : j % SimdWidth = l}})
        horizontal == SetMax({lane(l) : l \in 0 .. (SimdWidth - 1)})
    IN  TailMaxFrom(row, simd_end, horizontal)
\* simd_argmax_in_row: 0 without a table or for a state out of range, else the
\* standard loop
simd_argmax_in_row(state) ==
    IF ~qtable \/ state < 0 \/ state >= num_states
    THEN 0
    ELSE ScalarArgmax(StateData(state))

\* the value get_max_q_value_cached computes on a miss
ComputeMaxQ(state) ==
    IF simd_enabled /\ num_actions >= 8
    THEN simd_max_in_row(state)
    ELSE ScalarMax(StateData(state))
\* the action get_best_action_cached computes on a miss
ComputeBestAction(state) ==
    IF simd_enabled /\ num_actions >= 8
    THEN simd_argmax_in_row(state)
    ELSE ScalarArgmax(StateData(state))

\* uninitialised (malloc) memory holds Garbage (no float or action index of the
\* model is negative); a read of it yields any value
Garbage == -1
AnyFloat == QValues
AnyInt == 0 .. NumActions

\* create_optimized_qtable(num_states, num_actions, strategy, hints):
\* data zeroed, cache_valid calloc'ed, the two value caches malloc'ed
InitQTable ==
    /\ qtable = TRUE
    /\ data = [i \in DataIdx |-> Zero]
    /\ cache_on \in BOOLEAN
    /\ cache_valid = [s \in States |-> FALSE]
    /\ max_q_cache = [s \in States |-> IF cache_on THEN Garbage ELSE Zero]
    /\ best_action_cache = [s \in States |-> IF cache_on THEN Garbage ELSE 0]
\* no table was created: the handle is NULL
NullQTable ==
    /\ qtable = FALSE
    /\ data = [i \in DataIdx |-> Zero]
    /\ cache_on = FALSE
    /\ cache_valid = [s \in States |-> FALSE]
    /\ max_q_cache = [s \in States |-> Zero]
    /\ best_action_cache = [s \in States |-> 0]

\* an access that leaves the program in an undefined state
Undefined(r) ==
    /\ fault' = TRUE
    /\ ret' = r
    /\ UNCHANGED <<qtVars, agentVars, replayVars, auxVars, otherVars>>

\* static inline get_q_value_fast: no NULL test, no bounds test
get_q_value_fast(state, action) ==
    /\ ~fault
    /\ UNCHANGED otherVars
    /\ IF qtable /\ QIndex(state, action) \in DataIdx
       THEN /\ ret' = Ret(data[QIndex(state, action)])
            /\ UNCHANGED <<qtVars, agentVars, replayVars, auxVars, fault>>
       ELSE \E r \in AnyFloat : Undefined(Ret(r))

\* static inline set_q_value_fast: the store, then cache_valid[state] = false
set_q_value_fast(state, action, value) ==
    /\ ~fault
    /\ UNCHANGED otherVars
    /\ IF qtable /\ QIndex(state, action) \in DataIdx
          /\ (cache_on => state \in States)
       THEN /\ data' = [data EXCEPT ![QIndex(state, action)] = value]
            /\ cache_valid' = IF cache_on
                              THEN [cache_valid EXCEPT ![state] = FALSE]
                              ELSE cache_valid
            /\ ret' = NoRet
            /\ UNCHANGED <<qtable, cache_on, max_q_cache, best_action_cache,
                           agentVars, replayVars, auxVars, fault>>
       ELSE Undefined(NoRet)

\* get_max_q_value_cached
get_max_q_value_cached(state) ==
    /\ ~fault
    /\ UNCHANGED otherVars
    /\ IF ~qtable \/ state < 0 \/ state >= num_states
       THEN /\ ret' = Ret(Zero)
            /\ UNCHANGED <<qtVars, agentVars, replayVars, auxVars, fault>>
       ELSE IF cache_on /\ cache_valid[state]
       THEN /\ IF max_q_cache[state] = Garbage
               THEN \E r \in AnyFloat : ret' = Ret(r)
               ELSE ret' = Ret(max_q_cache[state])
            /\ UNCHANGED <<qtVars, agentVars, replayVars, auxVars, fault>>
       ELSE LET max_q == ComputeMaxQ(state)
            IN  /\ ret' = Ret(max_q)
                /\ IF cache_on
                   THEN /\ max_q_cache' = [max_q_cache EXCEPT ![state] = max_q]
                        /\ cache_valid' = [cache_valid EXCEPT ![state] = TRUE]
                   ELSE UNCHANGED <<max_q_cache, cache_valid>>
                /\ UNCHANGED <<qtable, data, cache_on, best_action_cache,
                               agentVars, replayVars, auxVars, fault>>

\* get_best_action_cached
get_best_action_cached(state) ==
    /\ ~fault
    /\ UNCHANGED otherVars
    /\ IF ~qtable \/ state < 0 \/ state >= num_states
       THEN /\ ret' = Ret(0)
            /\ UNCHANGED <<qtVars, agentVars, replayVars, auxVars, fault>>
       ELSE IF cache_on /\ cache_valid[state]
       THEN /\ IF best_action_cache[state] = Garbage
               THEN \E r \in AnyInt : ret' = Ret(r)
               ELSE ret' = Ret(best_action_cache[state])
            /\ UNCHANGED <<qtVars, agentVars, replayVars, auxVars, fault>>
       ELSE LET best_action == ComputeBestAction(state)
                max_q == StateData(state)[best_action]
            IN  /\ ret' = Ret(best_action)
                /\ IF cache_on
                   THEN /\ best_action_cache' =
                              [best_action_cache EXCEPT ![state] = best_action]
                        /\ max_q_cache' = [max_q_cache EXCEPT ![state] = max_q]
                        /\ cache_valid' = [cache_valid EXCEPT ![state] = TRUE]
                   ELSE UNCHANGED <<best_action_cache, max_q_cache, cache_valid>>
                /\ UNCHANGED <<qtable, data, cache_on, agentVars, replayVars, auxVars, fault>>

\* invalidate_state_cache
invalidate_state_cache(state) ==
    /\ ~fault
    /\ UNCHANGED otherVars
    /\ ret' = NoRet
    /\ IF ~qtable \/ ~cache_on \/ state < 0 \/ state >= num_states
       THEN UNCHANGED cache_valid
       ELSE cache_valid' = [cache_valid EXCEPT ![state] = FALSE]
    /\ UNCHANGED <<qtable, data, cache_on, max_q_cache, best_action_cache,
                   agentVars, replayVars, auxVars, fault>>

\* invalidate_all_caches
invalidate_all_caches ==
    /\ ~fault
    /\ UNCHANGED otherVars
    /\ ret' = NoRet
    /\ IF ~qtable \/ ~cache_on
       THEN UNCHANGED cache_valid
       ELSE cache_valid' = [s \in States |-> FALSE]
    /\ UNCHANGED <<qtable, data, cache_on, max_q_cache, best_action_cache,
                   agentVars, replayVars, auxVars, fault>>

\* batch_update_q_values: entries is the list of (states[i], actions[i], values[i]),
\* i < count; an entry in range is stored with set_q_value_fast, any other skipped
BatchEntries ==
    [state : States, action : Actions, value : QValues]
    \cup {[state |-> NumStates, action |-> 0, value |-> MaxQ],
          [state |-> 0, action |-> -1, value |-> MaxQ]}
RECURSIVE BatchStore(_, _, _, _)
BatchStore(d, cv, entries, i) ==
    IF i > Len(entries) THEN <<d, cv>>
    ELSE LET e == entries[i]
         IN  IF e.state >= 0 /\ e.state < num_states
                /\ e.action >= 0 /\ e.action < num_actions
             THEN BatchStore([d EXCEPT ![QIndex(e.state, e.action)] = e.value],
                             IF cache_on THEN [cv EXCEPT ![e.state] = FALSE] ELSE cv,
                             entries, i + 1)
             ELSE BatchStore(d, cv, entries, i + 1)

batch_update_q_values(entries) ==
    /\ ~fault
    /\ UNCHANGED otherVars
    /\ ret' = NoRet
    /\ IF ~qtable
       THEN UNCHANGED <<data, cache_valid>>
       ELSE LET r == BatchStore(data, cache_valid, entries, 1)
            IN  data' = r[1] /\ cache_valid' = r[2]
    /\ UNCHANGED <<qtable, cache_on, max_q_cache, best_action_cache, agentVars, replayVars, auxVars, fault>>

\* the values batch_get_q_values writes: the stored value of an in-range
\* entry, 0.0f for any other
BatchValues(d, entries) ==
    [i \in 1 .. Len(entries) |->
        IF entries[i].state >= 0 /\ entries[i].state < num_states
           /\ entries[i].action >= 0 /\ entries[i].action < num_actions
        THEN d[QIndex(entries[i].state, entries[i].action)]
        ELSE Zero]

\* batch_get_q_values
batch_get_q_values(entries) ==
    /\ ~fault
    /\ UNCHANGED otherVars
    /\ ret' = IF qtable THEN Ret(BatchValues(data, entries)) ELSE NoRet
    /\ UNCHANGED <<qtVars, agentVars, replayVars, auxVars, fault>>

\* one round of the loop of batch_get_max_q_values that leaves the flag alone
BatchMaxStepNoFlag(mc, cv, out, state) ==
    IF state < 0 \/ state >= num_states
    THEN <<mc, cv, Append(out, Zero)>>
    ELSE IF cache_on /\ cv[state]
    THEN <<mc, cv, Append(out, mc[state])>>
    ELSE <<IF cache_on THEN [mc EXCEPT ![state] = ComputeMaxQ(state)] ELSE mc,
           cv, Append(out, ComputeMaxQ(state))>>
\* one round of the loop of batch_get_max_q_values: get_max_q_value_cached on
\* the caches the earlier rounds left; the value is appended to max_values
BatchMaxStep(mc, cv, out, state) ==
    IF state < 0 \/ state >= num_states
    THEN <<mc, cv, Append(out, Zero)>>
    ELSE IF cache_on /\ cv[state]
    THEN <<mc, cv, Append(out, mc[state])>>
    ELSE <<IF cache_on THEN [mc EXCEPT ![state] = ComputeMaxQ(state)] ELSE mc,
           IF cache_on THEN [cv EXCEPT ![state] = TRUE] ELSE cv,
           Append(out, ComputeMaxQ(state))>>
\* the caches and max_values once the loop has handled states[i ..]
RECURSIVE BatchMax(_, _, _, _, _)
BatchMax(mc, cv, out, states, i) ==
    IF i > Len(states) THEN <<mc, cv, out>>
    ELSE LET r == BatchMaxStep(mc, cv, out, states[i])
         IN  BatchMax(r[1], r[2], r[3], states, i + 1)

\* the float arrays a caller can find in max_values: a slot read from a
\* never-written cache entry holds any float
Resolved(out) ==
    {vals \in [1 .. Len(out) -> AnyFloat \cup {out[i] : i \in 1 .. Len(out)}] :
        \A i \in 1 .. Len(out) : out[i] # Garbage => vals[i] = out[i]}

\* batch_get_max_q_values
batch_get_max_q_values(states) ==
    /\ ~fault
    /\ UNCHANGED otherVars
    /\ IF ~qtable
       THEN ret' = NoRet /\ UNCHANGED <<max_q_cache, cache_valid>>
       ELSE LET r == BatchMax(max_q_cache, cache_valid, <<>>, states, 1)
            IN  /\ max_q_cache' = r[1]
                /\ cache_valid' = r[2]
                /\ \E vals \in Resolved(r[3]) : ret' = Ret(vals)
    /\ UNCHANGED <<qtable, data, cache_on, best_action_cache, agentVars, replayVars, auxVars, fault>>

\* simd_update_state_row: copy new_values over the row, then invalidate_state_cache
simd_update_state_row(state, new_values) ==
    /\ ~fault
    /\ UNCHANGED otherVars
    /\ ret' = NoRet
    /\ IF ~qtable \/ state < 0 \/ state >= num_states
       THEN UNCHANGED <<data, cache_valid>>
       ELSE /\ data' = [i \in DataIdx |->
                          IF i >= get_state_row_fast(state)
                             /\ i < get_state_row_fast(state) + num_actions
                          THEN new_values[i - get_state_row_fast(state)]
                          ELSE data[i]]
            /\ cache_valid' = IF cache_on
                              THEN [cache_valid EXCEPT ![state] = FALSE]
                              ELSE cache_valid
    /\ UNCHANGED <<qtable, cache_on, max_q_cache, best_action_cache, agentVars, replayVars, auxVars, fault>>

\* qtable_get_value / qtable_set_value: wrapper = FALSE is a NULL wrapper, a live
\* wrapper holds the table handle
qtable_get_value(wrapper, state, action) ==
    IF ~wrapper \/ ~qtable
    THEN /\ ~fault
         /\ UNCHANGED otherVars
         /\ ret' = Ret(Zero)
         /\ UNCHANGED <<qtVars, agentVars, replayVars, auxVars, fault>>
    ELSE get_q_value_fast(state, action)

qtable_set_value(wrapper, state, action, value) ==
    IF ~wrapper \/ ~qtable
    THEN /\ ~fault
         /\ UNCHANGED otherVars
         /\ ret' = NoRet
         /\ UNCHANGED <<qtVars, agentVars, replayVars, auxVars, fault>>
    ELSE set_q_value_fast(state, action, value)

\* prefetch_state_data: a prefetch instruction at most, no store
prefetch_state_data(state) ==
    /\ ~fault
    /\ UNCHANGED otherVars
    /\ ret' = NoRet
    /\ UNCHANGED <<qtVars, agentVars, replayVars, auxVars, fault>>

\* the caches after warm_up_caches has handled likely_states[i ..]: for an
\* in-range state get_max_q_value_cached fills max_q_cache and sets the flag
\* on a miss, and the get_best_action_cached after it is then a hit
RECURSIVE WarmUp(_, _, _, _)
WarmUp(mc, cv, likely_states, i) ==
    IF i > Len(likely_states) THEN <<mc, cv>>
    ELSE LET state == likely_states[i]
         IN  IF state >= 0 /\ state < num_states /\ cache_on /\ ~cv[state]
             THEN WarmUp([mc EXCEPT ![state] = ComputeMaxQ(state)],
                         [cv EXCEPT ![state] = TRUE], likely_states, i + 1)
             ELSE WarmUp(mc, cv, likely_states, i + 1)

\* warm_up_caches
warm_up_caches(likely_states) ==
    /\ ~fault
    /\ UNCHANGED otherVars
    /\ ret' = NoRet
    /\ IF ~qtable
       THEN UNCHANGED <<max_q_cache, cache_valid>>
       ELSE LET r == WarmUp(max_q_cache, cache_valid, likely_states, 1)
            IN  max_q_cache' = r[1] /\ cache_valid' = r[2]
    /\ UNCHANGED <<qtable, data, cache_on, best_action_cache, agentVars, replayVars, auxVars, fault>>

\* simd_max_in_row on a table whose rows hold at least MinWide actions.  The
\* build decides the reduction: 8 lanes (AVX2), 4 lanes (SSE2), or the plain
\* loop (1).
MinWide == 8
SimdBuilds == {1, SimdWidth, 2 * SimdWidth}
\* the loop for (a = from; a < n; a++) if (row[a] > max_q) max_q = row[a]
RECURSIVE RunningMax(_, _, _, _)
RunningMax(row, a, n, max_q) ==
    IF a >= n THEN max_q
    ELSE RunningMax(row, a + 1, n, IF row[a] > max_q THEN row[a] ELSE max_q)
\* lane-wise max over the full blocks, horizontal max, the loop over the tail
VectorMax(row, n, lanes) ==
    LET simd_end == (n \div lanes) * lanes
        max_vec == [l \in 0 .. lanes - 1 |->
                       SetMax({row[i] : i \in {j \in 0 .. simd_end - 1 : j % lanes = l}})]
        result == SetMax({max_vec[l] : l \in 0 .. lanes - 1})
    IN  RunningMax(row, simd_end, n, result)
\* state_data = data + state * state_stride with state_stride = num_actions and
\* data aligned for the vector loads: the row starts on a vector boundary
\* when its offset is a multiple of the lane count
RowAligned(state, n, lanes) == (state * n) % lanes = 0
\* simd_max_in_row of the build with the given lanes; _mm_load_ps and
\* _mm256_load_ps of an address that is not aligned are undefined: the
\* program is killed, or the load works as an unaligned one
simd_max_in_wide_row(lanes) ==
    /\ ~fault /\ wide # NoWide
    /\ UNCHANGED otherVars
    /\ LET n == wide.num_actions
           row == wide.row
       IN  IF lanes = 1
           THEN ret' = Ret(RunningMax(row, 1, n, row[0])) /\ UNCHANGED fault
           ELSE IF RowAligned(wide.state, n, lanes)
           THEN ret' = Ret(VectorMax(row, n, lanes)) /\ UNCHANGED fault
           ELSE \/ ret' = Ret(VectorMax(row, n, lanes)) /\ UNCHANGED fault
                \/ ret' = NoRet /\ fault' = TRUE
    /\ UNCHANGED <<qtVars, agentVars, replayVars, auxVars>>

\* ===================================================== QLearningAgent
\* learning rate 0.5 and discount 0.5 on the grid
HalfUnit == QScale \div 2
\* the reward 1.0; stored values 0.0 and 1.0
Rewards == {QScale}
AgentValues == {0, QScale}
\* <<learning_rate, discount_factor>> passed to create_agent: (0.5, 0.5), (1.0, 0.5)
AgentParams == {<<HalfUnit, HalfUnit>>, <<QScale, HalfUnit>>}

\* create_agent: rows calloc'ed, learning_rate and discount_factor as passed
InitAgent ==
    /\ agent = TRUE
    /\ q_table = [s \in States |-> [a \in Actions |-> Zero]]
    /\ \E p \in AgentParams : learning_rate = p[1] /\ discount_factor = p[2]
    /\ last_action = 0
\* epsilon in units of 1/EpsilonOne, so EpsilonOne is 1.0f; create_agent sets
\* epsilon_decay = 0.995f and epsilon_min = 0.01f
EpsilonOne == 1000
DefaultDecay == 995
DefaultMin == 10
\* the exploration fields after create_agent(.., epsilon)
InitExplore(eps) ==
    /\ epsilon = eps
    /\ epsilon_decay = DefaultDecay
    /\ epsilon_min = DefaultMin
    /\ current_state = 0
NullExplore == InitExplore(0)
NullAgent ==
    /\ agent = FALSE
    /\ q_table = [s \in States |-> [a \in Actions |-> Zero]]
    /\ learning_rate = 0
    /\ discount_factor = 0
    /\ last_action = 0

AgentInRange(state, action) ==
    state >= 0 /\ state < num_states /\ action >= 0 /\ action < num_actions

\* get_q_value
get_q_value(state, action) ==
    /\ ~fault
    /\ UNCHANGED otherVars
    /\ ret' = IF ~agent \/ ~AgentInRange(state, action)
              THEN Ret(Zero)
              ELSE Ret(q_table[state][action])
    /\ UNCHANGED <<qtVars, agentVars, replayVars, auxVars, fault>>

\* set_q_value
set_q_value(state, action, value) ==
    /\ ~fault
    /\ UNCHANGED otherVars
    /\ ret' = NoRet
    /\ IF ~agent \/ ~AgentInRange(state, action)
       THEN UNCHANGED q_table
       ELSE q_table' = [q_table EXCEPT ![state][action] = value]
    /\ UNCHANGED <<qtVars, agent, learning_rate, discount_factor, last_action,
                   replayVars, auxVars, fault>>

\* the action select_greedy_action returns: ACTION_UP (0) without an agent or
\* for a state out of range, else the first action with the highest Q-value
GreedyAction(state) ==
    IF ~agent \/ state < 0 \/ state >= num_states
    THEN 0
    ELSE ScalarArgmax(q_table[state])

\* select_greedy_action
select_greedy_action(state) ==
    /\ ~fault
    /\ UNCHANGED otherVars
    /\ ret' = Ret(GreedyAction(state))
    /\ UNCHANGED <<qtVars, agentVars, replayVars, auxVars, fault>>

\* max_next_q of update_q_value: 0 when done, else the running max of the row
MaxNextQIgnoringDone(table, next_state, done) == ScalarMax(table[next_state])
MaxNextQ(table, next_state, done) ==
    IF done THEN Zero ELSE ScalarMax(table[next_state])

\* the Q-learning formula of update_q_value, on the grid of 1/scale
TDUpdate(current_q, reward, max_next_q, lr, discount, scale) ==
    LET td_target == reward + FMul(discount, max_next_q, scale)
        td_error == td_target - current_q
    IN  current_q + FMul(lr, td_error, scale)

\* update_q_value
update_q_value(state, action, reward, next_state, done) ==
    /\ ~fault
    /\ UNCHANGED otherVars
    /\ ret' = NoRet
    /\ IF ~agent \/ state < 0 \/ state >= num_states
          \/ next_state < 0 \/ next_state >= num_states
          \/ action < 0 \/ action >= num_actions
       THEN UNCHANGED <<q_table, last_action>>
       ELSE LET current_q == q_table[state][action]
                max_next_q == MaxNextQ(q_table, next_state, done)
            IN  /\ last_action' = action
                /\ q_table' = [q_table EXCEPT ![state][action] =
                       TDUpdate(current_q, reward, max_next_q,
                                learning_rate, discount_factor, QScale)]
    /\ UNCHANGED <<qtVars, agent, learning_rate, discount_factor, replayVars, auxVars, fault>>

\* ===================================================== experience replay
\* Priorities and TD errors are whole numbers of one unit; beta and its
\* increment are in units of 1/BetaOne, so BetaOne is 1.0f; alpha is a whole
\* exponent.
BetaOne == 1000
\* the transitions handed to the buffers
Transition(k) ==
    [state |-> k % NumStates, action |-> k % NumActions,
     reward |-> (k % 2) * QScale, next_state |-> (k + 1) % NumStates,
     done |-> (k % 2 = 1)]
Transitions == {Transition(k) : k \in 1 .. NumTransitions}
TdErrors == -MaxTd .. MaxTd
Capacities == 1 .. MaxCapacity
Slots == 0 .. capacity - 1
FDiv(a, n) == a \div n

RECURSIVE Pow(_, _)
Pow(x, n) == IF n = 0 THEN 1 ELSE x * Pow(x, n - 1)
RECURSIVE Gcd(_, _)
Gcd(a, b) == IF b = 0 THEN a ELSE Gcd(b, a % b)

\* a slot of the malloc'ed experiences array that was never written
NoExperience ==
    [state |-> Garbage, action |-> Garbage, reward |-> Garbage,
     next_state |-> Garbage, done |-> FALSE, td_error |-> Garbage,
     priority |-> Garbage, timestamp |-> Garbage]

\* create_replay_config, the fields the buffer reads
create_replay_config(priority_alpha, priority_beta_start, priority_beta_end, beta_anneal_steps, minp) ==
    [priority_alpha |-> priority_alpha,
     priority_beta_start |-> priority_beta_start,
     priority_beta_end |-> priority_beta_end,
     beta_anneal_steps |-> beta_anneal_steps,
     min_priority |-> minp]

\* configurations of the buffer runs: beta anneals from 0 to 1.0 in two steps
ReplayConfigs ==
    {create_replay_config(a, 0, BetaOne, 2, 1) : a \in 0 .. MaxAlpha}

\* configurations of the annealing runs: the one of test_beta_annealing, one
\* with betaStart > betaEnd, one with betaStart > 1.0, 0 to 1.0 in two steps,
\* and 0.4 to 0.8 in two steps
BetaConfigs ==
    {create_replay_config(1, (2 * BetaOne) \div 5, BetaOne, 100, 1),
     create_replay_config(1, BetaOne, (2 * BetaOne) \div 5, 2, 1),
     create_replay_config(1, (3 * BetaOne) \div 2, 2 * BetaOne, 1, 1),
     create_replay_config(1, 0, BetaOne, 2, 1),
     create_replay_config(1, (2 * BetaOne) \div 5, (4 * BetaOne) \div 5, 2, 1)}

\* create_priority_buffer
create_priority_buffer(cap, cfg) ==
    /\ buffer = TRUE
    /\ config = cfg
    /\ capacity = cap
    /\ size = 0
    /\ current_index = 0
    /\ alpha = cfg.priority_alpha
    /\ beta = cfg.priority_beta_start
    /\ beta_increment =
           FDiv(cfg.priority_beta_end - cfg.priority_beta_start, cfg.beta_anneal_steps)
    /\ max_priority = 1
    /\ min_priority = cfg.min_priority
    /\ global_step = 0
    /\ experiences = [i \in 0 .. cap - 1 |-> NoExperience]
    /\ priorities = [i \in 0 .. cap - 1 |-> cfg.min_priority]
    /\ heap = [i \in 0 .. cap - 1 |-> Garbage]

NullPriorityBuffer ==
    /\ buffer = FALSE
    /\ config = create_replay_config(0, 0, 0, 1, 1)
    /\ capacity = 0 /\ size = 0 /\ current_index = 0
    /\ alpha = 0 /\ beta = 0 /\ beta_increment = 0
    /\ max_priority = 0 /\ min_priority = 0 /\ global_step = 0
    /\ experiences = <<>> /\ priorities = <<>> /\ heap = <<>>

\* the static batch of sample_priority_batch before its first call
NoSample == batch = <<>>

\* create_experience_buffer
create_experience_buffer(cap) ==
    /\ ebuffer = TRUE
    /\ eb_capacity = cap
    /\ eb_size = 0
    /\ eb_current_index = 0
    /\ eb_experiences = [i \in 0 .. cap - 1 |-> NoExperience]

NullExperienceBuffer ==
    /\ ebuffer = FALSE
    /\ eb_capacity = 0 /\ eb_size = 0 /\ eb_current_index = 0
    /\ eb_experiences = <<>>

NullReplay == NullPriorityBuffer /\ NoSample /\ NullExperienceBuffer

\* the advance of current_index without the wrap
NextIndexNoWrap(index, cap) == index + 1
\* (current_index + 1) % capacity
NextIndex(index, cap) == (index + 1) % cap

\* add_experience
add_experience(tr) ==
    /\ ~fault
    /\ UNCHANGED otherVars
    /\ ret' = NoRet
    /\ IF ~ebuffer
       THEN UNCHANGED ebVars
       ELSE /\ eb_experiences' = [eb_experiences EXCEPT ![eb_current_index] =
                   [NoExperience EXCEPT !.state = tr.state, !.action = tr.action,
                                        !.reward = tr.reward,
                                        !.next_state = tr.next_state,
                                        !.done = tr.done]]
            /\ eb_current_index' = NextIndex(eb_current_index, eb_capacity)
            /\ eb_size' = IF eb_size < eb_capacity THEN eb_size + 1 ELSE eb_size
            /\ UNCHANGED <<ebuffer, eb_capacity>>
    /\ UNCHANGED <<qtVars, agentVars, perVars, sampleVars, auxVars, fault>>

\* powf(fabsf(td_error) + min_priority, alpha), without the fabsf
PriorityNoAbs(td_error, minp, a) == Pow(td_error + minp, a)
\* powf(fabsf(td_error) + min_priority, alpha)
Priority(td_error, minp, a) == Pow(Abs(td_error) + minp, a)

\* a rescan that looks at the first slot only
ScanMaxFirst(prios, n) == prios[0]
\* the rescan of add_priority_experience over priorities[0 .. n-1]
ScanMax(prios, n) == SetMax({prios[i] : i \in 0 .. n - 1})

\* add_priority_experience
add_priority_experience(tr, td_error) ==
    /\ ~fault
    /\ UNCHANGED otherVars
    /\ ret' = NoRet
    /\ fault' = (buffer /\ capacity <= 0)
    /\ IF ~buffer \/ capacity <= 0
       THEN UNCHANGED perVars
       ELSE LET priority == Priority(td_error, min_priority, alpha)
                exp == [state |-> tr.state, action |-> tr.action,
                        reward |-> tr.reward, next_state |-> tr.next_state,
                        done |-> tr.done, td_error |-> td_error,
                        priority |-> priority, timestamp |-> global_step]
                prios == [priorities EXCEPT ![current_index] = priority]
            IN  /\ global_step' = global_step + 1
                /\ experiences' = [experiences EXCEPT ![current_index] = exp]
                /\ priorities' = prios
                /\ max_priority' =
                       IF size = 0 \/ priority > max_priority
                       THEN priority
                       ELSE IF size >= capacity /\ current_index < size
                            THEN ScanMax(prios, size)
                            ELSE max_priority
                /\ current_index' = NextIndex(current_index, capacity)
                /\ size' = IF size < capacity THEN size + 1 ELSE size
                /\ UNCHANGED <<buffer, config, capacity, alpha, beta,
                               beta_increment, min_priority>>
    /\ UNCHANGED <<qtVars, agentVars, sampleVars, ebVars, auxVars>>

\* a float weight (num / den) ^ (1 / root), kept exact
One == [num |-> 1, den |-> 1, root |-> 1]
\* powf(prob * size, +beta): the exponent with the wrong sign
WeightPlusBeta(prios, index, n, maxp, b) ==
    LET g == Gcd(Abs(b), BetaOne)
        p == b \div g
        q == BetaOne \div g
    IN  IF p >= 0
        THEN [num |-> Pow(prios[index] * n, p), den |-> Pow(maxp, p), root |-> q]
        ELSE [num |-> Pow(maxp, -p), den |-> Pow(prios[index] * n, -p), root |-> q]
\* powf(priority / max_priority * size, -beta) with beta = p / q in lowest terms
Weight(prios, index, n, maxp, b) ==
    LET g == Gcd(Abs(b), BetaOne)
        p == b \div g
        q == BetaOne \div g
    IN  IF p >= 0
        THEN [num |-> Pow(maxp, p), den |-> Pow(prios[index] * n, p), root |-> q]
        ELSE [num |-> Pow(prios[index] * n, -p), den |-> Pow(maxp, -p), root |-> q]

\* calculate_importance_weight
calculate_importance_weight(index) ==
    IF ~buffer \/ index < 0 \/ index >= size
    THEN One
    ELSE Weight(priorities, index, size, max_priority, beta)

\* beta + beta_increment without the clamp
AnnealNoClamp(b, increment) == b + increment
\* fminf(beta + beta_increment, 1.0f)
Anneal(b, increment) == Min(b + increment, BetaOne)

\* update_beta
update_beta ==
    /\ ~fault
    /\ UNCHANGED otherVars
    /\ ret' = NoRet
    /\ beta' = IF buffer THEN Anneal(beta, beta_increment) ELSE beta
    /\ UNCHANGED <<buffer, config, capacity, size, current_index, alpha,
                   beta_increment, max_priority, min_priority, global_step,
                   experiences, priorities>>
    /\ UNCHANGED <<qtVars, agentVars, sampleVars, ebVars, auxVars, fault>>

\* the running sum priorities[0] + ... + priorities[j]
RECURSIVE Cumulative(_, _)
Cumulative(prios, j) == IF j < 0 THEN 0 ELSE prios[j] + Cumulative(prios, j - 1)

\* the scan of sample_priority_batch with the test cumulative > random_value
SelectStrict(prios, n, r) ==
    LET total == Cumulative(prios, n - 1)
        hits == {j \in 0 .. n - 1 : Cumulative(prios, j) * RandMax > r * total}
    IN  IF hits = {} THEN 0 ELSE CHOOSE j \in hits : \A k \in hits : j <= k
\* the scan of sample_priority_batch for the draw (r / RandMax) * total_priority:
\* the first j with cumulative >= random_value, and 0 when there is none
Select(prios, n, r) ==
    LET total == Cumulative(prios, n - 1)
        hits == {j \in 0 .. n - 1 : Cumulative(prios, j) * RandMax >= r * total}
    IN  IF hits = {} THEN 0 ELSE CHOOSE j \in hits : \A k \in hits : j <= k

\* what a call of sample_priority_batch leaves with its caller: the pointer
\* returned (NULL or the static batch), the two out arrays, and the values
\* rand() gave to the call
NullBatch == [batch |-> FALSE, indices |-> <<>>, weights |-> <<>>, rands |-> <<>>]
Sampled(sel, w, rands) == [batch |-> TRUE, indices |-> sel, weights |-> w, rands |-> rands]

\* sample_priority_batch; rands[i] is the i-th value of rand(), in 0 .. RandMax
sample_priority_batch(batch_size, rands) ==
    /\ ~fault
    /\ UNCHANGED otherVars
    /\ IF ~buffer \/ size = 0 \/ batch_size <= 0
       THEN /\ ret' = Ret(NullBatch)
            /\ UNCHANGED sampleVars
       ELSE LET sel == [i \in 1 .. batch_size |-> Select(priorities, size, rands[i])]
                batch_capacity == IF Len(batch) < batch_size
                                  THEN batch_size ELSE Len(batch)
            IN  /\ ret' = Ret(Sampled(sel,
                                      [i \in 1 .. batch_size |->
                                          calculate_importance_weight(sel[i])],
                                      rands))
                /\ batch' = [i \in 1 .. batch_capacity |->
                                IF i <= batch_size THEN experiences[sel[i]]
                                ELSE batch[i]]
    /\ UNCHANGED <<qtVars, agentVars, perVars, ebVars, auxVars, fault>>

\* one pass of the loop with the test idx < capacity in place of idx < size
UpdateOneAnySlot(st, idx, td_error) ==
    IF idx >= 0 /\ idx < capacity
    THEN LET new_priority == Priority(td_error, min_priority, alpha)
         IN  [priorities |-> [st.priorities EXCEPT ![idx] = new_priority],
              experiences |-> [st.experiences EXCEPT ![idx].td_error = td_error,
                                                     ![idx].priority = new_priority],
              max_priority |-> IF new_priority > st.max_priority
                               THEN new_priority ELSE st.max_priority]
    ELSE st
\* a pass that leaves max_priority alone
UpdateOneNoMax(st, idx, td_error) ==
    IF idx >= 0 /\ idx < size
    THEN LET new_priority == Priority(td_error, min_priority, alpha)
         IN  [priorities |-> [st.priorities EXCEPT ![idx] = new_priority],
              experiences |-> [st.experiences EXCEPT ![idx].td_error = td_error,
                                                     ![idx].priority = new_priority],
              max_priority |-> st.max_priority]
    ELSE st
\* one pass of the loop of update_experience_priorities
UpdateOne(st, idx, td_error) ==
    IF idx >= 0 /\ idx < size
    THEN LET new_priority == Priority(td_error, min_priority, alpha)
         IN  [priorities |-> [st.priorities EXCEPT ![idx] = new_priority],
              experiences |-> [st.experiences EXCEPT ![idx].td_error = td_error,
                                                     ![idx].priority = new_priority],
              max_priority |-> IF new_priority > st.max_priority
                               THEN new_priority ELSE st.max_priority]
    ELSE st
RECURSIVE UpdateLoop(_, _, _, _)
UpdateLoop(st, idxs, td_errors, i) ==
    IF i > Len(idxs) THEN st
    ELSE UpdateLoop(UpdateOne(st, idxs[i], td_errors[i]), idxs, td_errors, i + 1)

\* update_experience_priorities
update_experience_priorities(idxs, td_errors) ==
    /\ ~fault
    /\ UNCHANGED otherVars
    /\ ret' = NoRet
    /\ IF ~buffer
       THEN UNCHANGED <<priorities, experiences, max_priority>>
       ELSE LET st == UpdateLoop([priorities |-> priorities,
                                  experiences |-> experiences,
                                  max_priority |-> max_priority],
                                 idxs, td_errors, 1)
            IN  /\ priorities' = st.priorities
                /\ experiences' = st.experiences
                /\ max_priority' = st.max_priority
    /\ UNCHANGED <<buffer, config, capacity, size, current_index, alpha, beta,
                   beta_increment, min_priority, global_step>>
    /\ UNCHANGED <<qtVars, agentVars, sampleVars, ebVars, auxVars, fault>>

\* a sift that leaves the new entry where it was put
HeapifyUpNever(h, p, index) == h
\* heapify_up: the entry at index rises while its priority exceeds its parent's
RECURSIVE HeapifyUp(_, _, _)
HeapifyUp(h, p, index) ==
    IF index = 0 THEN h
    ELSE LET parent == (index - 1) \div 2
             heap_idx == h[index]
             parent_heap_idx == h[parent]
         IN  IF p[heap_idx] > p[parent_heap_idx]
             THEN HeapifyUp([h EXCEPT ![index] = parent_heap_idx,
                                      ![parent] = heap_idx], p, parent)
             ELSE h

\* heapify_down on a heap of n entries: the entry at index sinks below the
\* larger of its children (the left one on a tie) while that one exceeds it
RECURSIVE HeapifyDown(_, _, _, _)
HeapifyDown(h, p, n, index) ==
    LET left_child == 2 * index + 1
        right_child == 2 * index + 2
        l1 == IF left_child < n /\ p[h[left_child]] > p[h[index]]
              THEN left_child ELSE index
        largest == IF right_child < n /\ p[h[right_child]] > p[h[l1]]
                   THEN right_child ELSE l1
    IN  IF largest # index
        THEN HeapifyDown([h EXCEPT ![index] = h[largest], ![largest] = h[index]],
                         p, n, largest)
        ELSE h

\* heap_insert: no NULL test and no test of experience_index
heap_insert(experience_index, priority) ==
    /\ ~fault
    /\ UNCHANGED wide
    /\ IF ~buffer
       THEN /\ fault' = TRUE /\ ret' = NoRet
            /\ UNCHANGED <<size, priorities, heap>>
       ELSE IF size >= capacity
       THEN /\ ret' = NoRet
            /\ UNCHANGED <<size, priorities, heap, fault>>
       ELSE IF experience_index < 0 \/ experience_index >= capacity
       THEN /\ fault' = TRUE /\ ret' = NoRet
            /\ UNCHANGED <<size, priorities, heap>>
       ELSE LET prios == [priorities EXCEPT ![experience_index] = priority]
            IN  /\ priorities' = prios
                /\ heap' = HeapifyUp([heap EXCEPT ![size] = experience_index],
                                     prios, size)
                /\ size' = size + 1
                /\ ret' = NoRet
                /\ UNCHANGED fault
    /\ UNCHANGED <<buffer, config, capacity, current_index, alpha, beta,
                   beta_increment, max_priority, min_priority, global_step,
                   experiences>>
    /\ UNCHANGED <<qtVars, agentVars, sampleVars, ebVars, auxVars>>

\* heap_extract_max: no NULL test
heap_extract_max ==
    /\ ~fault
    /\ UNCHANGED wide
    /\ IF ~buffer
       THEN /\ fault' = TRUE /\ ret' = Ret(-1)
            /\ UNCHANGED <<size, heap>>
       ELSE IF size = 0
       THEN /\ ret' = Ret(-1)
            /\ UNCHANGED <<size, heap, fault>>
       ELSE LET max_idx == heap[0]
                moved == [heap EXCEPT ![0] = heap[size - 1]]
            IN  /\ size' = size - 1
                /\ heap' = IF size - 1 > 0
                           THEN HeapifyDown(moved, priorities, size - 1, 0)
                           ELSE moved
                /\ ret' = Ret(max_idx)
                /\ UNCHANGED fault
    /\ UNCHANGED <<buffer, config, capacity, current_index, alpha, beta,
                   beta_increment, max_priority, min_priority, global_step,
                   experiences, priorities>>
    /\ UNCHANGED <<qtVars, agentVars, sampleVars, ebVars, auxVars>>

\* ===================================================== StateVisitTracker
\* Bonuses, per-state epsilons, per-state learning rates and visit priorities
\* are in units of 1/BonusOne, so BonusOne is 1.0f; a float product or quotient
\* is rounded down to the grid.
BonusOne == 100
min_exploration_bonus == 1
\* exploration_bonus_decay = 0.999f, in thousandths
exploration_bonus_decay == 999
TrackedStates == 0 .. NumTracked - 1
\* states a caller may pass, in and out of range
TrackedArgs == -1 .. NumTracked

\* 1.0f / sqrtf(n), rounded down to the grid
InvSqrt(n) ==
    CHOOSE k \in 0 .. BonusOne :
        k * k * n <= BonusOne * BonusOne /\ (k + 1) * (k + 1) * n > BonusOne * BonusOne

\* create_state_visit_tracker(num_states, adaptive_epsilon, adaptive_learning_rate)
create_state_visit_tracker(ae, alr) ==
    /\ tracker = TRUE
    /\ visit_counts = [s \in TrackedStates |-> 0]
    /\ total_visits = 0
    /\ adaptive_epsilon = ae
    /\ adaptive_learning_rate = alr
    /\ exploration_bonuses = [s \in TrackedStates |-> BonusOne]
    /\ state_epsilons = [s \in TrackedStates |-> BonusOne]
    /\ state_learning_rates = [s \in TrackedStates |-> BonusOne]
    /\ visit_priorities = [s \in TrackedStates |-> BonusOne]
\* no tracker was created: the handle is NULL
NullTracker ==
    /\ tracker = FALSE
    /\ visit_counts = [s \in TrackedStates |-> 0]
    /\ total_visits = 0
    /\ adaptive_epsilon = FALSE
    /\ adaptive_learning_rate = FALSE
    /\ exploration_bonuses = [s \in TrackedStates |-> BonusOne]
    /\ state_epsilons = [s \in TrackedStates |-> BonusOne]
    /\ state_learning_rates = [s \in TrackedStates |-> BonusOne]
    /\ visit_priorities = [s \in TrackedStates |-> BonusOne]

\* the priorities update_state_priorities computes from counts and bonuses
StatePriorities(counts, bonuses) ==
    LET min_visits == CHOOSE m \in {counts[s] : s \in TrackedStates} :
                          \A s \in TrackedStates : m <= counts[s]
        max_visits == SetMax({counts[s] : s \in TrackedStates})
    IN  [i \in TrackedStates |->
            IF max_visits = min_visits
            THEN BonusOne
            ELSE LET visit_norm ==
                         BonusOne - FDiv((counts[i] - min_visits) * BonusOne,
                                         max_visits - min_visits)
                 IN  visit_norm + bonuses[i]]

\* select_priority_state: the first state holding the largest visit priority
select_priority_state ==
    IF ~tracker THEN 0
    ELSE CHOOSE b \in TrackedStates :
             /\ \A i \in TrackedStates : visit_priorities[i] <= visit_priorities[b]
             /\ \A i \in TrackedStates : i < b => visit_priorities[i] < visit_priorities[b]

\* a bonus that grows with the visits
VisitBonusGrowing(count) == Max(min_exploration_bonus, BonusOne * (count + 1))
\* fmaxf(min_exploration_bonus, 1.0f / sqrtf(visit_counts[state] + 1))
VisitBonus(count) == Max(min_exploration_bonus, InvSqrt(count + 1))

\* a visit that is counted for the state and not in total_visits
VisitEffectUncounted(state) ==
    /\ visit_counts' = IF tracker /\ state >= 0 /\ state < NumTracked
                       THEN [visit_counts EXCEPT ![state] = @ + 1]
                       ELSE visit_counts
    /\ UNCHANGED <<total_visits, exploration_bonuses, state_epsilons,
                   state_learning_rates, visit_priorities>>
\* what update_state_visit does to the tracker, update_state_priorities at
\* its end included
VisitEffect(state) ==
    IF ~tracker \/ state < 0 \/ state >= NumTracked
    THEN UNCHANGED <<visit_counts, total_visits, exploration_bonuses,
                     state_epsilons, state_learning_rates, visit_priorities>>
    ELSE LET counts == [visit_counts EXCEPT ![state] = @ + 1]
             bonuses == [exploration_bonuses EXCEPT ![state] =
                            VisitBonus(counts[state])]
         IN  /\ visit_counts' = counts
             /\ total_visits' = total_visits + 1
             /\ exploration_bonuses' = bonuses
             /\ state_epsilons' =
                    IF adaptive_epsilon
                    THEN [state_epsilons EXCEPT ![state] = bonuses[state]]
                    ELSE state_epsilons
             /\ state_learning_rates' =
                    IF adaptive_learning_rate
                    THEN [state_learning_rates EXCEPT ![state] =
                             Min(2 * BonusOne, BonusOne + bonuses[state])]
                    ELSE state_learning_rates
             /\ visit_priorities' = StatePriorities(counts, bonuses)

\* update_state_visit
update_state_visit(state) ==
    /\ ~fault
    /\ UNCHANGED otherVars
    /\ ret' = NoRet
    /\ VisitEffect(state)
    /\ UNCHANGED <<tracker, adaptive_epsilon, adaptive_learning_rate>>
    /\ UNCHANGED <<qtVars, agentVars, replayVars, exploreVars, fault>>

\* get_exploration_bonus
get_exploration_bonus(state) ==
    IF ~tracker \/ state < 0 \/ state >= NumTracked
    THEN 0
    ELSE exploration_bonuses[state]

\* get_state_epsilon
get_state_epsilon(state, base_epsilon) ==
    IF ~tracker \/ state < 0 \/ state >= NumTracked \/ ~adaptive_epsilon
    THEN base_epsilon
    ELSE FMul(base_epsilon, state_epsilons[state], BonusOne)

\* get_state_learning_rate
get_state_learning_rate(state, base_learning_rate) ==
    IF ~tracker \/ state < 0 \/ state >= NumTracked \/ ~adaptive_learning_rate
    THEN base_learning_rate
    ELSE FMul(base_learning_rate, state_learning_rates[state], BonusOne)

\* one bonus after a decay, without the floor
DecayedNoFloor(bonus) == FMul(bonus, exploration_bonus_decay, 1000)
\* one bonus after a decay: multiplied by the decay rate, not below the minimum
Decayed(bonus) ==
    Max(FMul(bonus, exploration_bonus_decay, 1000), min_exploration_bonus)

\* a bonus after n calls of decay_exploration_bonuses
RECURSIVE DecayedTimes(_, _)
DecayedTimes(bonus, n) ==
    IF n = 0 THEN bonus ELSE DecayedTimes(Decayed(bonus), n - 1)

\* for (i = 0; i < rounds; i++) decay_exploration_bonuses(tracker)
decay_loop(rounds) ==
    /\ ~fault
    /\ UNCHANGED otherVars
    /\ ret' = NoRet
    /\ exploration_bonuses' =
           IF tracker
           THEN [i \in TrackedStates |-> DecayedTimes(exploration_bonuses[i], rounds)]
           ELSE exploration_bonuses
    /\ UNCHANGED <<tracker, visit_counts, total_visits, visit_priorities,
                   state_epsilons, state_learning_rates,
                   adaptive_epsilon, adaptive_learning_rate>>
    /\ UNCHANGED <<qtVars, agentVars, replayVars, exploreVars, fault>>
\* decay_exploration_bonuses
decay_exploration_bonuses == decay_loop(1)
\* the decay loop of the tracker tests: ten calls in a row
DecayRounds == 10

\* reset_state_visit_tracker
reset_state_visit_tracker ==
    /\ ~fault
    /\ UNCHANGED otherVars
    /\ ret' = NoRet
    /\ IF ~tracker
       THEN UNCHANGED <<visit_counts, total_visits, exploration_bonuses,
                        state_epsilons, state_learning_rates, visit_priorities>>
       ELSE /\ visit_counts' = [s \in TrackedStates |-> 0]
            /\ total_visits' = 0
            /\ exploration_bonuses' = [s \in TrackedStates |-> BonusOne]
            /\ state_epsilons' = [s \in TrackedStates |-> BonusOne]
            /\ state_learning_rates' = [s \in TrackedStates |-> BonusOne]
            /\ visit_priorities' = [s \in TrackedStates |-> BonusOne]
    /\ UNCHANGED <<tracker, adaptive_epsilon, adaptive_learning_rate>>
    /\ UNCHANGED <<qtVars, agentVars, replayVars, exploreVars, fault>>

\* ===================================================== training steps
\* epsilon after decay_epsilon, without the lower limit
DecayedEpsilonNoMin(eps, decay, minimum) == FMul(eps, decay, EpsilonOne)
\* epsilon after decay_epsilon: multiplied by the decay, not below epsilon_min
DecayedEpsilon(eps, decay, minimum) ==
    IF FMul(eps, decay, EpsilonOne) < minimum
    THEN minimum
    ELSE FMul(eps, decay, EpsilonOne)

\* decay_epsilon
decay_epsilon ==
    /\ ~fault
    /\ UNCHANGED otherVars
    /\ ret' = NoRet
    /\ epsilon' = IF agent
                  THEN DecayedEpsilon(epsilon, epsilon_decay, epsilon_min)
                  ELSE epsilon
    /\ UNCHANGED <<epsilon_decay, epsilon_min, current_state>>
    /\ UNCHANGED <<qtVars, agentVars, replayVars, trackerVars, fault>>

\* the epsilon-greedy choice: r1 and r2 are the two values of rand(), in
\* 0 .. RandMax; (float)r1 / RAND_MAX < eps explores with r2 % num_actions
EpsilonGreedy(state, eps, r1, r2) ==
    IF r1 * EpsilonOne < eps * RandMax
    THEN r2 % num_actions
    ELSE GreedyAction(state)

\* select_action
select_action(state, r1, r2) ==
    /\ ~fault
    /\ UNCHANGED otherVars
    /\ IF ~agent \/ state < 0 \/ state >= num_states
       THEN ret' = Ret(0) /\ UNCHANGED current_state
       ELSE /\ current_state' = state
            /\ ret' = Ret(EpsilonGreedy(state, epsilon, r1, r2))
    /\ UNCHANGED <<epsilon, epsilon_decay, epsilon_min>>
    /\ UNCHANGED <<qtVars, agentVars, replayVars, trackerVars, fault>>

\* select_action_with_priority: the visit is recorded first, the epsilon of
\* the choice is the state's epsilon after the visit
select_action_with_priority(state, r1, r2) ==
    /\ ~fault
    /\ UNCHANGED otherVars
    /\ IF ~agent \/ state < 0 \/ state >= num_states
       THEN /\ ret' = Ret(0)
            /\ UNCHANGED <<current_state, visit_counts, total_visits,
                           exploration_bonuses, state_epsilons,
                           state_learning_rates, visit_priorities>>
       ELSE /\ current_state' = state
            /\ VisitEffect(state)
            /\ LET eps == IF tracker /\ adaptive_epsilon /\ state < NumTracked
                          THEN FMul(epsilon, state_epsilons'[state], BonusOne)
                          ELSE epsilon
               IN  ret' = Ret(EpsilonGreedy(state, eps, r1, r2))
    /\ UNCHANGED <<epsilon, epsilon_decay, epsilon_min>>
    /\ UNCHANGED <<tracker, adaptive_epsilon, adaptive_learning_rate>>
    /\ UNCHANGED <<qtVars, agentVars, replayVars, fault>>

\* a bonus (units of 1/BonusOne) as a reward (units of 1/QScale), rounded down
BonusAsReward(bonus) == (bonus * QScale) \div BonusOne
\* the reward of a plain update
EnhancedRewardNoBonus(state, reward) == reward
\* enhanced_reward of update_q_value_with_priority
EnhancedReward(state, reward) ==
    IF tracker THEN reward + BonusAsReward(get_exploration_bonus(state)) ELSE reward
\* learning_rate of update_q_value_with_priority
AdaptiveRate(state) ==
    IF tracker /\ adaptive_learning_rate
    THEN get_state_learning_rate(state, learning_rate)
    ELSE learning_rate

\* update_q_value_with_priority
update_q_value_with_priority(state, action, reward, next_state, done) ==
    /\ ~fault
    /\ UNCHANGED otherVars
    /\ ret' = NoRet
    /\ IF ~agent \/ state < 0 \/ state >= num_states
          \/ next_state < 0 \/ next_state >= num_states
          \/ action < 0 \/ action >= num_actions
       THEN UNCHANGED <<q_table, last_action>>
       ELSE LET current_q == q_table[state][action]
                max_next_q == MaxNextQ(q_table, next_state, done)
            IN  /\ last_action' = action
                /\ q_table' = [q_table EXCEPT ![state][action] =
                       TDUpdate(current_q, EnhancedReward(state, reward), max_next_q,
                                AdaptiveRate(state), discount_factor, QScale)]
    /\ UNCHANGED <<qtVars, agent, learning_rate, discount_factor, replayVars, auxVars, fault>>

\* get_q_value as replay_batch_experiences reads it: 0.0f out of range
ReadQ(table, state, action) ==
    IF AgentInRange(state, action) THEN table[state][action] ELSE Zero
\* a round that looks at the next state of a terminal experience too
ReplayStepIgnoringDone(table, exp, w) ==
    LET current_q == ReadQ(table, exp.state, exp.action)
        max_next_q == SetMax({ReadQ(table, exp.next_state, a) : a \in Actions})
        weighted_lr == FMul(learning_rate, w, QScale)
        new_q == TDUpdate(current_q, exp.reward, max_next_q,
                          weighted_lr, discount_factor, QScale)
    IN  IF AgentInRange(exp.state, exp.action)
        THEN [table EXCEPT ![exp.state][exp.action] = new_q]
        ELSE table
\* one round of replay_batch_experiences on experience exp with weight w
ReplayStep(table, exp, w) ==
    LET current_q == ReadQ(table, exp.state, exp.action)
        max_next_q == IF exp.done THEN Zero
                      ELSE SetMax({ReadQ(table, exp.next_state, a) : a \in Actions})
        weighted_lr == FMul(learning_rate, w, QScale)
        new_q == TDUpdate(current_q, exp.reward, max_next_q,
                          weighted_lr, discount_factor, QScale)
    IN  IF AgentInRange(exp.state, exp.action)
        THEN [table EXCEPT ![exp.state][exp.action] = new_q]
        ELSE table
RECURSIVE ReplayLoop(_, _, _, _)
ReplayLoop(table, exps, weights, i) ==
    IF i > Len(exps) THEN table
    ELSE ReplayLoop(ReplayStep(table, exps[i], weights[i]), exps, weights, i + 1)

\* replay_batch_experiences
replay_batch_experiences(exps, weights) ==
    /\ ~fault
    /\ UNCHANGED otherVars
    /\ ret' = NoRet
    /\ q_table' = IF agent THEN ReplayLoop(q_table, exps, weights, 1) ELSE q_table
    /\ UNCHANGED <<qtVars, agent, learning_rate, discount_factor, last_action,
                   replayVars, auxVars, fault>>

\* ===================================================== construction
\* the sizes a caller may pass to a constructor: negative, zero, or the size
\* the model is built for
SizeArgs(n) == {-1, 0, n}

\* create_optimized_qtable(num_states, num_actions, strategy, hints), called
\* while no table exists; hints.frequent_max_queries allocates the caches
create_optimized_qtable(ns, na, frequent_max_queries) ==
    /\ ~fault /\ ~qtable
    /\ UNCHANGED otherVars
    /\ ret' = NoRet
    /\ IF ns <= 0 \/ na <= 0
       THEN UNCHANGED qtVars
       ELSE /\ qtable' = TRUE
            /\ data' = [i \in DataIdx |-> Zero]
            /\ cache_on' = frequent_max_queries
            /\ cache_valid' = [s \in States |-> FALSE]
            /\ max_q_cache' =
                   [s \in States |-> IF frequent_max_queries THEN Garbage ELSE Zero]
            /\ best_action_cache' =
                   [s \in States |-> IF frequent_max_queries THEN Garbage ELSE 0]
    /\ UNCHANGED <<agentVars, replayVars, auxVars, fault>>

\* whether malloc(cap * sizeof ..) can return a block: a negative cap wraps to
\* a size no allocator grants, a zero cap may return NULL or a unique pointer
MallocResults(cap) ==
    IF cap < 0 THEN {FALSE} ELSE IF cap = 0 THEN BOOLEAN ELSE {TRUE}

\* the call create_priority_buffer(cap, cfg) while no buffer exists: the
\* fields of create_priority_buffer, or NULL when an allocation fails
new_priority_buffer(cap, cfg) ==
    /\ ~fault /\ ~buffer
    /\ UNCHANGED wide
    /\ ret' = NoRet
    /\ \E allocated \in MallocResults(cap) :
           IF ~allocated
           THEN UNCHANGED <<perVars, heap>>
           ELSE /\ buffer' = TRUE
                /\ config' = cfg
                /\ capacity' = cap
                /\ size' = 0
                /\ current_index' = 0
                /\ alpha' = cfg.priority_alpha
                /\ beta' = cfg.priority_beta_start
                /\ beta_increment' =
                       FDiv(cfg.priority_beta_end - cfg.priority_beta_start,
                            cfg.beta_anneal_steps)
                /\ max_priority' = 1
                /\ min_priority' = cfg.min_priority
                /\ global_step' = 0
                /\ experiences' = [i \in 0 .. cap - 1 |-> NoExperience]
                /\ priorities' = [i \in 0 .. cap - 1 |-> cfg.min_priority]
                /\ heap' = [i \in 0 .. cap - 1 |-> Garbage]
    /\ UNCHANGED <<qtVars, agentVars, sampleVars, ebVars, auxVars, fault>>

\* ===================================================== specifications
InitObs == ret = NoRet /\ fault = FALSE /\ wide = NoWide
\* no tracker, and an agent (if any) created with epsilon = 1.0
NoAux == NullTracker /\ InitExplore(EpsilonOne)

\* point reads and writes of both tables
NextPoint ==
    \/ \E s \in StateArgs, a \in ActionArgs : get_q_value_fast(s, a)
    \/ \E s \in StateArgs, a \in ActionArgs, v \in QValues : set_q_value_fast(s, a, v)
    \/ \E w \in BOOLEAN, s \in StateArgs, a \in ActionArgs : qtable_get_value(w, s, a)
    \/ \E w \in BOOLEAN, s \in StateArgs, a \in ActionArgs, v \in QValues :
            qtable_set_value(w, s, a, v)
    \/ \E s \in StateArgs : get_max_q_value_cached(s)
    \/ \E s \in StateArgs, a \in ActionArgs : get_q_value(s, a)
    \/ \E s \in StateArgs, a \in ActionArgs, v \in AgentValues : set_q_value(s, a, v)

\* a run works on the optimized table or on the agent's table
InitPoint ==
    /\ InitObs /\ NoAux
    /\ NullReplay
    /\ \/ InitQTable /\ NullAgent
       \/ NullQTable /\ InitAgent
SpecPoint == InitPoint /\ [][NextPoint]_vars

\* the writes and the cached queries of the optimized table
NextCache ==
    \/ \E s \in States, a \in Actions, v \in QValues : set_q_value_fast(s, a, v)
    \/ \E n \in 1 .. MaxBatch : \E entries \in [1 .. n -> BatchEntries] :
            batch_update_q_values(entries)
    \/ \E s \in StateArgs, row \in [Actions -> QValues] : simd_update_state_row(s, row)
    \/ \E s \in StateArgs : invalidate_state_cache(s)
    \/ invalidate_all_caches
    \/ \E s \in StateArgs : get_max_q_value_cached(s)
    \/ \E s \in StateArgs : get_best_action_cached(s)
InitCache == InitObs /\ NoAux /\ InitQTable /\ NullAgent /\ NullReplay
SpecCache == InitCache /\ [][NextCache]_vars

\* the Bellman update of the agent's table; <<state, action, next_state>> is in
\* range or has one index out of range
UpdateArgs ==
    (States \X Actions \X States)
    \cup {<<-1, 0, 0>>, <<NumStates, 0, 0>>, <<0, -1, 0>>, <<0, NumActions, 0>>,
          <<0, 0, -1>>, <<0, 0, NumStates>>}
NextAgent ==
    \/ \E s \in StateArgs, a \in ActionArgs, v \in AgentValues : set_q_value(s, a, v)
    \/ \E t \in UpdateArgs, r \in Rewards, d \in BOOLEAN :
            update_q_value(t[1], t[2], r, t[3], d)
InitAgentOnly == InitObs /\ NoAux /\ NullQTable /\ InitAgent /\ NullReplay
SpecAgent == InitAgentOnly /\ [][NextAgent]_vars

\* an entry <<index, td_error>> of an update names a slot of the array, or
\* the index just below or just above it
UpdateEntries ==
    {<<i, td>> : i \in Slots, td \in {-MaxTd, 0}}
    \cup {<<-1, MaxTd>>, <<capacity, MaxTd>>}
UpdateLists == UNION {[1 .. n -> UpdateEntries] : n \in 1 .. MaxUpdates}
Indices(list) == [i \in DOMAIN list |-> list[i][1]]
TdErrorsOf(list) == [i \in DOMAIN list |-> list[i][2]]
\* filling, sampling, annealing and re-prioritising (one entry at a time) the
\* replay buffers: a run works on a priority buffer or on a plain one
NextReplay ==
    \/ \E tr \in Transitions, td \in TdErrors :
            global_step < MaxSteps /\ add_priority_experience(tr, td)
    \/ update_beta
    \/ \E n \in 0 .. MaxSample : \E rands \in [1 .. n -> 0 .. RandMax] :
            sample_priority_batch(n, rands)
    \/ \E tr \in Transitions : add_experience(tr)
    \/ \E e \in UpdateEntries :
            update_experience_priorities(<<e[1]>>, <<e[2]>>)
InitReplay ==
    /\ InitObs /\ NoAux /\ NullQTable /\ NullAgent /\ NoSample
    /\ \/ /\ \E cap \in Capacities, cfg \in ReplayConfigs :
                create_priority_buffer(cap, cfg)
          /\ NullExperienceBuffer
       \/ /\ NullPriorityBuffer
          /\ \E cap \in Capacities : create_experience_buffer(cap)
SpecReplay == InitReplay /\ [][NextReplay]_vars

\* filling a priority buffer and re-prioritising its slots
NextPriority ==
    \/ \E tr \in Transitions, td \in TdErrors :
            global_step < MaxSteps /\ add_priority_experience(tr, td)
    \/ \E list \in UpdateLists :
            update_experience_priorities(Indices(list), TdErrorsOf(list))
    \/ update_beta
InitPriority ==
    /\ InitObs /\ NoAux /\ NullQTable /\ NullAgent /\ NoSample /\ NullExperienceBuffer
    /\ \/ \E cap \in Capacities, cfg \in ReplayConfigs :
              create_priority_buffer(cap, cfg)
       \/ NullPriorityBuffer
SpecPriority == InitPriority /\ [][NextPriority]_vars

\* beta annealing alone, over every kind of configuration; a beta that falls
\* is followed down to -MaxBetaDrop
NextBeta == beta > -MaxBetaDrop * BetaOne /\ update_beta
InitBeta ==
    /\ InitObs /\ NoAux /\ NullQTable /\ NullAgent /\ NoSample /\ NullExperienceBuffer
    /\ \E cfg \in BetaConfigs : create_priority_buffer(1, cfg)
SpecBeta == InitBeta /\ [][NextBeta]_vars


\* constructing a table and a priority buffer from arbitrary sizes, then
\* using them
NextCreate ==
    \/ \E ns \in SizeArgs(NumStates), na \in SizeArgs(NumActions), h \in BOOLEAN :
            create_optimized_qtable(ns, na, h)
    \/ \E cap \in -1 .. MaxCapacity, cfg \in ReplayConfigs :
            new_priority_buffer(cap, cfg)
    \/ \E tr \in Transitions, td \in TdErrors :
            global_step < MaxSteps /\ add_priority_experience(tr, td)
    \/ \E s \in States, a \in Actions, v \in QValues : set_q_value_fast(s, a, v)
InitCreate ==
    /\ InitObs /\ NoAux /\ NullQTable /\ NullAgent /\ NoSample
    /\ NullPriorityBuffer /\ NullExperienceBuffer
SpecCreate == InitCreate /\ [][NextCreate]_vars

\* a visit tracker under visits, runs of decays, and resets
NextTracker ==
    \/ \E s \in TrackedArgs : total_visits < MaxVisits /\ update_state_visit(s)
    \/ decay_loop(DecayRounds)
    \/ reset_state_visit_tracker
InitTracker ==
    /\ InitObs /\ InitExplore(EpsilonOne) /\ NullQTable /\ NullAgent /\ NoSample
    /\ NullPriorityBuffer /\ NullExperienceBuffer
    /\ \/ \E ae \in BOOLEAN, alr \in BOOLEAN : create_state_visit_tracker(ae, alr)
       \/ NullTracker
SpecTracker == InitTracker /\ [][NextTracker]_vars

\* single decays of a tracker whose first state is visited now and then (as in
\* test_exploration_bonus_decay); a decay is always possible and the training
\* loop keeps calling it
NextDecay ==
    \/ decay_exploration_bonuses
    \/ total_visits < MaxDecayVisits /\ update_state_visit(0)
    \/ reset_state_visit_tracker
InitDecay ==
    /\ InitObs /\ InitExplore(EpsilonOne) /\ NullQTable /\ NullAgent /\ NoSample
    /\ NullPriorityBuffer /\ NullExperienceBuffer
    /\ create_state_visit_tracker(TRUE, TRUE)
SpecDecay == InitDecay /\ [][NextDecay]_vars /\ WF_vars(decay_exploration_bonuses)

\* a table under sets, cached queries and layout hints
NextHints ==
    \/ \E s \in States, a \in Actions, v \in QValues : set_q_value_fast(s, a, v)
    \/ \E s \in States, a \in Actions : get_q_value_fast(s, a)
    \/ \E s \in StateArgs : get_max_q_value_cached(s)
    \/ \E s \in StateArgs : get_best_action_cached(s)
    \/ \E s \in StateArgs : prefetch_state_data(s)
    \/ \E n \in 1 .. MaxBatch : \E likely_states \in [1 .. n -> StateArgs] :
            warm_up_caches(likely_states)
InitHints == InitObs /\ NoAux /\ InitQTable /\ NullAgent /\ NullReplay
SpecHints == InitHints /\ [][NextHints]_vars

\* the batch operations of the table, with the cached best-action query
\* the entries of test_batch_operations: state i with action i % num_actions;
\* and one entry out of range
GetEntries == (States \X Actions) \cup {<<NumStates, 0>>, <<0, -1>>}
GetEntry(p) == [state |-> p[1], action |-> p[2]]
TestEntries ==
    [state : States, action : Actions, value : QValues]
    \cup {[state |-> NumStates, action |-> 0, value |-> MaxQ]}
StoreEntries == {e \in TestEntries : e.action = e.state % NumActions}
NextBatch ==
    \/ \E n \in 1 .. MaxBatch : \E entries \in [1 .. n -> StoreEntries] :
            batch_update_q_values(entries)
    \/ \E n \in 1 .. MaxBatch : \E ps \in [1 .. n -> GetEntries] :
            batch_get_q_values([i \in 1 .. n |-> GetEntry(ps[i])])
    \/ \E n \in 1 .. MaxBatch : \E states \in [1 .. n -> StateArgs] :
            batch_get_max_q_values(states)
    \/ \E s \in States : get_best_action_cached(s)
InitBatch == InitObs /\ NoAux /\ InitQTable /\ NullAgent /\ NullReplay
SpecBatch == InitBatch /\ [][NextBatch]_vars

\* rows written value by value and queried for their best action, on the
\* optimized table or on the agent's table
NextGreedy ==
    \/ \E s \in States, a \in Actions, v \in QValues : set_q_value_fast(s, a, v)
    \/ \E s \in StateArgs : get_best_action_cached(s)
    \/ \E s \in States, a \in Actions, v \in AgentValues : set_q_value(s, a, v)
    \/ \E s \in StateArgs : select_greedy_action(s)
InitGreedy ==
    /\ InitObs /\ NoAux /\ NullReplay
    /\ \/ InitQTable /\ NullAgent
       \/ NullQTable /\ InitAgent
SpecGreedy == InitGreedy /\ [][NextGreedy]_vars

\* <<epsilon, epsilon_decay, epsilon_min>> of an agent: test_epsilon_decay
\* (1.0, 0.9, 0.1), and create_agent's decay and minimum with epsilon 0.0
ExploreConfigs == {<<EpsilonOne, 900, 100>>, <<0, DefaultDecay, DefaultMin>>}
\* the experiences and importance weights (units of 1/QScale) of a replayed batch
ReplayEntries == Transitions
ReplayWeights == {HalfUnit, QScale}
\* <<state, action, next_state>> of the updates of a training loop: a step
\* from the first state, and a step from outside the table
TrainUpdates == {<<0, 0, 1 % NumStates>>, <<-1, 0, 0>>}
\* the steps of a training loop
NextTrain ==
    \/ decay_epsilon
    \/ \E s \in StateArgs, r1 \in 0 .. RandMax, r2 \in 0 .. RandMax :
            select_action(s, r1, r2)
    \/ \E s \in StateArgs, r1 \in 0 .. RandMax, r2 \in 0 .. RandMax :
            total_visits < MaxTrainVisits /\ select_action_with_priority(s, r1, r2)
    \/ \E t \in TrainUpdates, r \in Rewards, d \in BOOLEAN :
            update_q_value(t[1], t[2], r, t[3], d)
    \/ \E t \in TrainUpdates, r \in Rewards, d \in BOOLEAN :
            update_q_value_with_priority(t[1], t[2], r, t[3], d)
    \/ \E n \in 0 .. MaxSample : \E exps \in [1 .. n -> ReplayEntries], w \in ReplayWeights :
            replay_batch_experiences(exps, [i \in 1 .. n |-> w])
InitTrain ==
    /\ InitObs /\ NullQTable /\ NullReplay
    /\ InitAgent
    /\ \E c \in ExploreConfigs :
           epsilon = c[1] /\ epsilon_decay = c[2] /\ epsilon_min = c[3] /\ current_state = 0
    /\ \/ create_state_visit_tracker(TRUE, TRUE)
       \/ NullTracker
SpecTrain == InitTrain /\ [][NextTrain]_vars

\* an agent whose table is updated with the tracker's per-state rate and
\* bonus, between visits of the states: a step each way between the first two
\* states and a step from outside the table; an entry is updated while its
\* value is within MaxLearned (a rate above 1.0 lets the values swing ever wider)
AdaptiveUpdates ==
    {<<0, 0, 1 % NumStates>>, <<1 % NumStates, 1 % NumActions, 0>>, <<-1, 0, 0>>}
NextAdaptive ==
    \/ \E s \in States : total_visits < MaxVisits /\ update_state_visit(s)
    \/ \E t \in AdaptiveUpdates, r \in Rewards, d \in BOOLEAN :
            /\ AgentInRange(t[1], t[2]) => Abs(q_table[t[1]][t[2]]) <= MaxLearned * QScale
            /\ update_q_value_with_priority(t[1], t[2], r, t[3], d)
InitAdaptive ==
    /\ InitObs /\ InitExplore(EpsilonOne) /\ NullQTable /\ NullReplay
    /\ InitAgent
    /\ \E ae \in BOOLEAN, alr \in BOOLEAN : create_state_visit_tracker(ae, alr)
SpecAdaptive == InitAdaptive /\ [][NextAdaptive]_vars

\* a tracker visited directly and through the action selection of an agent
\* (exploring or greedy), decayed (ten calls at a time) once it has been
\* visited, and reset
NextVisits ==
    \/ \E s \in TrackedArgs : total_visits < MaxVisits /\ update_state_visit(s)
    \/ total_visits >= MaxVisits - 1 /\ decay_loop(DecayRounds)
    \/ \E s \in StateArgs, r1 \in {0, RandMax} :
            total_visits < MaxVisits /\ select_action_with_priority(s, r1, 1)
    \/ reset_state_visit_tracker
InitVisits ==
    /\ InitObs /\ InitExplore(EpsilonOne) /\ NullQTable /\ NullReplay
    /\ InitAgent
    /\ \/ create_state_visit_tracker(TRUE, TRUE)
       \/ NullTracker
SpecVisits == InitVisits /\ [][NextVisits]_vars

\* an agent that learns from single updates and from replayed batches: a step
\* between the first two states, a terminal step, and a step from outside the
\* table, on tables with entries set beforehand
LearnEntries ==
    {[state |-> 0, action |-> 0, reward |-> QScale,
      next_state |-> 1 % NumStates, done |-> FALSE],
     [state |-> 1 % NumStates, action |-> 1 % NumActions, reward |-> QScale,
      next_state |-> 0, done |-> TRUE],
     [state |-> -1, action |-> 0, reward |-> QScale, next_state |-> 0, done |-> FALSE]}
NextLearn ==
    \/ \E s \in States, a \in Actions, v \in AgentValues : set_q_value(s, a, v)
    \/ \E e \in LearnEntries :
            update_q_value(e.state, e.action, e.reward, e.next_state, e.done)
    \/ \E n \in 1 .. MaxSample : \E exps \in [1 .. n -> LearnEntries], w \in ReplayWeights :
            replay_batch_experiences(exps, [i \in 1 .. n |-> w])
SpecLearn == InitAgentOnly /\ [][NextLearn]_vars

\* the heap of a priority buffer under inserts of slots it does not hold and
\* extractions; an insert into a full heap names any slot
HeapPriorities == 1 .. MaxHeapPriority
InHeap == {heap[i] : i \in 0 .. size - 1}
NextHeap ==
    \/ \E e \in Slots, p \in HeapPriorities :
            (size >= capacity \/ e \notin InHeap) /\ heap_insert(e, p)
    \/ heap_extract_max
InitHeap ==
    /\ InitObs /\ NoAux /\ NullQTable /\ NullAgent /\ NoSample /\ NullExperienceBuffer
    /\ \E cap \in 1 .. MaxHeap : create_priority_buffer(cap, create_replay_config(1, 0, BetaOne, 2, 1))
SpecHeap == InitHeap /\ [][NextHeap]_vars

\* the maximum of a row of every table of MinWide .. MaxWide actions, the
\* row of the first or of the second state, in every build
WideTables ==
    UNION {{[num_actions |-> n, state |-> st, row |-> r] :
               st \in 0 .. 1, r \in [0 .. n - 1 -> QValues]} : n \in MinWide .. MaxWide}
NextSimd == \E lanes \in SimdBuilds : simd_max_in_wide_row(lanes)
InitSimd ==
    /\ ret = NoRet /\ fault = FALSE /\ wide \in WideTables
    /\ NoAux /\ NullQTable /\ NullAgent /\ NullReplay
SpecSimd == InitSimd /\ [][NextSimd]_vars

\* ===================================================== claims
\* from-scratch reductions of a row: its maximum and the lowest index holding it
RowMaximum(row) == SetMax({row[a] : a \in Actions})
LowestArgmax(row) ==
    CHOOSE a \in Actions :
        /\ row[a] = RowMaximum(row)
        /\ \A b \in Actions : b < a => row[b] < RowMaximum(row)
Row(state) == [a \in Actions |-> data[QIndex(state, a)]]

\* C1: cache coherency.  On a table created with caching enabled, in every
\* reachable state cache_valid[s] implies that max_q_cache[s] is the maximum of
\* row s and best_action_cache[s] is the lowest-index argmax of row s.
C1_CacheCoherent ==
    (qtable /\ cache_on) =>
        \A s \in States :
            cache_valid[s] =>
                /\ max_q_cache[s] = RowMaximum(Row(s))
                /\ best_action_cache[s] = LowestArgmax(Row(s))

\* C2: point update.  On a live table, after set(s, a, v) with (s, a) in range
\* a get(s, a) returns v and every other in-range pair keeps its value; for
\* set_q_value_fast/get_q_value_fast and for set_q_value/get_q_value.
FastValue(state, action) == data[QIndex(state, action)]
C2_PointUpdate ==
    [][ \A s \in States, a \in Actions :
          /\ \A v \in QValues :
                (qtable /\ set_q_value_fast(s, a, v)) =>
                    /\ FastValue(s, a)' = v
                    /\ \A s2 \in States, a2 \in Actions :
                          <<s2, a2>> # <<s, a>> =>
                              FastValue(s2, a2)' = FastValue(s2, a2)
          /\ \A v \in AgentValues :
                (agent /\ set_q_value(s, a, v)) =>
                    /\ q_table'[s][a] = v
                    /\ \A s2 \in States, a2 \in Actions :
                          <<s2, a2>> # <<s, a>> =>
                              q_table'[s2][a2] = q_table[s2][a2]
      ]_vars
\* a set on the second row took effect and the first row is untouched
C2_Witness ==
    /\ qtable /\ ~fault /\ ret = NoRet
    /\ FastValue(1, 0) = MaxQ
    /\ \A a \in Actions : FastValue(0, a) = Zero

\* C3: bounds errors are neutral.  For an index outside the table's range, and
\* for a NULL handle, get returns 0.0, set changes no slot and no cache flag,
\* and no slot outside the array is touched; for the fast accessors, the
\* wrapper and the agent's accessors.
SetIsNeutral ==
    /\ data' = data /\ cache_valid' = cache_valid
    /\ q_table' = q_table /\ ~fault'
GetIsNeutral == ret' = Ret(Zero) /\ ~fault'
C3_BoundsNeutral ==
    [][ \A s \in StateArgs, a \in ActionArgs :
          (~InRange(s, a) \/ ~qtable \/ ~agent) =>
              /\ (~InRange(s, a) \/ ~qtable) =>
                    /\ get_q_value_fast(s, a) => GetIsNeutral
                    /\ \A v \in QValues : set_q_value_fast(s, a, v) => SetIsNeutral
                    /\ \A w \in BOOLEAN :
                          /\ qtable_get_value(w, s, a) => GetIsNeutral
                          /\ \A v \in QValues :
                                qtable_set_value(w, s, a, v) => SetIsNeutral
              /\ (~InRange(s, a) \/ ~agent) =>
                    /\ get_q_value(s, a) => GetIsNeutral
                    /\ \A v \in AgentValues : set_q_value(s, a, v) => SetIsNeutral
      ]_vars

\* C4: plain Bellman update.  For in-range state, action and next_state,
\* update_q_value sets Q(state, action) to
\*   Q + learningRate * (reward + (done ? 0 : discount * max_a Q(next_state, a)) - Q)
\* with the max over the table before the write, and changes no other entry;
\* learningRate 0.5, discount 0.9, Q(0,UP) = 0, Q(1,UP) = 5, reward 10,
\* next_state 1, not terminal gives 7.25.  With an index out of range the table
\* is unchanged.
Bellman(table, state, action, reward, next_state, done, lr, discount, scale) ==
    LET q == table[state][action]
        future == IF done THEN 0
                  ELSE FMul(discount, RowMaximum(table[next_state]), scale)
    IN  q + FMul(lr, reward + future - q, scale)
\* the table of the example, in hundredths: Q(1, UP) = 5.00, every other entry 0
ExampleTable == [s \in States |-> [a \in Actions |-> IF s = 1 /\ a = 0 THEN 500 ELSE 0]]
C4_Example ==
    TDUpdate(ExampleTable[0][0], 1000, MaxNextQ(ExampleTable, 1, FALSE), 50, 90, 100)
        = 725
C4_BellmanUpdate ==
    [][ /\ C4_Example
        /\ \A s \in States, a \in Actions, n \in States, r \in Rewards, d \in BOOLEAN :
              (agent /\ update_q_value(s, a, r, n, d)) =>
                  /\ q_table'[s][a] =
                        Bellman(q_table, s, a, r, n, d,
                                learning_rate, discount_factor, QScale)
                  /\ \A s2 \in States, a2 \in Actions :
                        <<s2, a2>> # <<s, a>> => q_table'[s2][a2] = q_table[s2][a2]
        /\ \A t \in UpdateArgs \ (States \X Actions \X States) :
              \A r \in Rewards, d \in BOOLEAN :
                  q_table' = q_table \/ ~(agent /\ update_q_value(t[1], t[2], r, t[3], d))
      ]_vars
\* an update has run whose result exceeds every reward and every stored value:
\* the discounted maximum of the next row went into it
C4_Witness ==
    /\ agent /\ last_action = 1
    /\ q_table[0][1] > QScale

\* C5: replay buffer shape.  After n add_priority_experience calls on a buffer
\* of capacity C > 0, interleaved with sampling, priority and beta updates, size =
\* min(n, C) and current_index = n mod C with 0 <= current_index < C, and no
\* step lowers size; add_experience keeps the same shape on the plain buffer,
\* where the n-th add takes the shape of n - 1 adds to the shape of n adds.
ShapeAfter(n, cap, sz, index) ==
    sz = Min(n, cap) /\ index = n % cap /\ 0 <= index /\ index < cap
PriorityShape ==
    buffer => ShapeAfter(global_step, capacity, size, current_index)
PlainShape ==
    ebuffer => \E n \in 0 .. 2 * eb_capacity :
                   ShapeAfter(n, eb_capacity, eb_size, eb_current_index)
PlainAddStep ==
    \A tr \in Transitions :
        (ebuffer /\ add_experience(tr)) =>
            \A n \in 0 .. 2 * eb_capacity :
                ShapeAfter(n, eb_capacity, eb_size, eb_current_index) =>
                    ShapeAfter(n + 1, eb_capacity, eb_size', eb_current_index')
C5_BufferShape ==
    /\ [](PriorityShape /\ PlainShape)
    /\ [][size' >= size /\ eb_size' >= eb_size /\ PlainAddStep]_vars
\* a buffer of two slots after three adds, sampled and annealed in between
C5_Witness ==
    /\ buffer /\ capacity = 2 /\ global_step = 3
    /\ size = 2 /\ current_index = 1
    /\ Len(batch) > 0 /\ beta = BetaOne

\* C6: proportional sampling rule.  For a buffer with size > 0 and a draw r in
\* [0, totalPriority], each index written by sample_priority_batch is the
\* smallest j in [0, size) whose running sum priorities[0..j] is >= r, and so
\* is in [0, size), for any batch_size.
TotalPriority == Cumulative(priorities, size - 1)
\* the running sum up to j reaches, and exceeds, the draw (r / RandMax) * total
Reaches(j, r) == Cumulative(priorities, j) * RandMax >= r * TotalPriority
Exceeds(j, r) == Cumulative(priorities, j) * RandMax > r * TotalPriority
HasSampled == ret # NoRet /\ ret[1].batch
C6_SamplingRule ==
    HasSampled =>
        \A i \in DOMAIN ret[1].indices :
            LET j == ret[1].indices[i]
                r == ret[1].rands[i]
            IN  /\ j \in 0 .. size - 1
                /\ Reaches(j, r)
                /\ \A k \in 0 .. j - 1 : ~Reaches(k, r)
\* the rule with "exceeds", for the draws in [0, totalPriority)
C6_ExceedsRule ==
    HasSampled =>
        \A i \in DOMAIN ret[1].indices :
            LET j == ret[1].indices[i]
                r == ret[1].rands[i]
            IN  r < RandMax =>
                    /\ j \in 0 .. size - 1
                    /\ Exceeds(j, r)
                    /\ \A k \in 0 .. j - 1 : ~Exceeds(k, r)
\* a batch of two drawn from two slots, the first draw landing in the second slot
C6_Witness ==
    /\ HasSampled /\ size = 2
    /\ ret[1].indices = <<1, 0>>
    /\ ret[1].rands[1] > 0

\* C7: beta annealing.  For every replay configuration with betaStart <=
\* betaEnd and betaStart <= 1.0, update_beta never lowers beta, beta never
\* exceeds 1.0, and beta after k calls is min(betaStart + k * (betaEnd -
\* betaStart) / annealSteps, 1.0); for 0.4, 1.0 and 100 steps that is 0.7
\* after 50 calls and 1.0 after 150.
BetaAfter(cfg, k) ==
    Min(cfg.priority_beta_start
          + k * FDiv(cfg.priority_beta_end - cfg.priority_beta_start,
                     cfg.beta_anneal_steps),
        BetaOne)
AnnealingConfig(cfg) ==
    /\ cfg.priority_beta_start <= cfg.priority_beta_end
    /\ cfg.priority_beta_start <= BetaOne
TestConfig == create_replay_config(1, (2 * BetaOne) \div 5, BetaOne, 100, 1)
BetaLaw ==
    /\ beta' >= beta
    /\ beta' <= BetaOne
    /\ \A k \in 0 .. 2 * config.beta_anneal_steps :
          beta = BetaAfter(config, k) => beta' = BetaAfter(config, k + 1)
Occupied == 0 .. size - 1
WeightLeq(a, b) == a.root = b.root /\ a.num * b.den <= b.num * a.den
WeightPositive(a) == a.num > 0 /\ a.den > 0
TransitionOf(e) == <<e.state, e.action, e.reward, e.next_state, e.done, e.timestamp>>
\* the entries of the list that name slot s
Listed(list, s) == {i \in DOMAIN list : list[i][1] = s}
Valid(list) == {i \in DOMAIN list : list[i][1] >= 0 /\ list[i][1] < size}
NewPriority(list, i) == Priority(list[i][2], min_priority, alpha)
UpdateEffect(list) ==
    /\ \A s \in Slots :
          IF s < size /\ Listed(list, s) # {}
          THEN LET i == SetMax(Listed(list, s))
               IN  /\ priorities'[s] = NewPriority(list, i)
                   /\ experiences'[s].priority = NewPriority(list, i)
                   /\ experiences'[s].td_error = list[i][2]
          ELSE /\ priorities'[s] = priorities[s]
               /\ experiences'[s] = experiences[s]
    /\ \A s \in Slots : TransitionOf(experiences'[s]) = TransitionOf(experiences[s])
    /\ size' = size /\ current_index' = current_index /\ beta' = beta
    /\ max_priority' >= max_priority
    /\ \A i \in Valid(list) : max_priority' >= NewPriority(list, i)
    /\ \/ max_priority' = max_priority
       \/ \E i \in Valid(list) : max_priority' = NewPriority(list, i)
C10_UpdateFrame ==
    [][ \A list \in UpdateLists :
          (buffer /\ update_experience_priorities(Indices(list), TdErrorsOf(list)))
              => UpdateEffect(list) ]_vars
\* the only slot was taken down by an update and max_priority stayed up
C10_Witness ==
    /\ buffer /\ alpha = 1 /\ capacity = 2 /\ size = 1
    /\ experiences[0].td_error = 0 /\ experiences[0].timestamp = 0
    /\ priorities[0] = Priority(0, min_priority, alpha)
    /\ max_priority > priorities[0]
\* ---------------------------------------------------------------- C11
\* C11: a constructor called with a non-positive size returns NULL:
\* create_optimized_qtable with states <= 0 or actions <= 0 and
\* create_priority_buffer with capacity <= 0; so no buffer that exists has a
\* capacity <= 0, and add_priority_experience never takes an index modulo such
\* a capacity.
NonPositiveFails ==
    /\ \A ns \in SizeArgs(NumStates), na \in SizeArgs(NumActions), h \in BOOLEAN :
           (ns <= 0 \/ na <= 0) /\ create_optimized_qtable(ns, na, h) => ~qtable'
    /\ \A cap \in -1 .. MaxCapacity, cfg \in ReplayConfigs :
           cap <= 0 /\ new_priority_buffer(cap, cfg) => ~buffer'
C11_ConstructionErrors ==
    /\ [](buffer => capacity > 0)
    /\ []~fault
    /\ [][NonPositiveFails]_vars
\* ---------------------------------------------------------------- C12
\* C12: right after update_state_priorities (the last step of a visit), a
\* state with fewer visits has a strictly higher priority than one with more
\* visits, and when all counts are equal every priority is 1.0.
FavorsLessVisited ==
    /\ \A a \in TrackedStates, b \in TrackedStates :
           visit_counts[a] < visit_counts[b] => visit_priorities[a] > visit_priorities[b]
    /\ (\A a \in TrackedStates, b \in TrackedStates : visit_counts[a] = visit_counts[b])
           => \A a \in TrackedStates : visit_priorities[a] = BonusOne
VisitStep == \E s \in TrackedStates : tracker /\ update_state_visit(s)
C12_FavorsLessVisited == [][VisitStep => FavorsLessVisited']_vars
\* ---------------------------------------------------------------- C13
\* C13: for every tracked state the exploration bonus and the per-state
\* epsilon lie in [min_exploration_bonus, 1.0] and the per-state learning rate
\* in [1.0, 2.0]; so get_state_epsilon never exceeds the base epsilon and
\* get_state_learning_rate never falls below the base learning rate.
BaseRates == {0, 1, EpsilonOne \div 2, EpsilonOne}
C13_TrackerRanges ==
    \A s \in TrackedStates :
        /\ min_exploration_bonus <= exploration_bonuses[s]
        /\ exploration_bonuses[s] <= BonusOne
        /\ min_exploration_bonus <= state_epsilons[s]
        /\ state_epsilons[s] <= BonusOne
        /\ BonusOne <= state_learning_rates[s]
        /\ state_learning_rates[s] <= 2 * BonusOne
        /\ \A base \in BaseRates :
               /\ get_state_epsilon(s, base) <= base
               /\ get_state_learning_rate(s, base) >= base
\* a visited state whose rate was raised and whose bonus then decayed to the floor
C13_Witness ==
    /\ tracker /\ adaptive_epsilon /\ adaptive_learning_rate
    /\ \E s \in TrackedStates :
           /\ visit_counts[s] > 0
           /\ state_learning_rates[s] > BonusOne
           /\ state_epsilons[s] < BonusOne
           /\ exploration_bonuses[s] = min_exploration_bonus

\* ---------------------------------------------------------------- C14
\* C14: a decay_exploration_bonuses call never increases a bonus and never
\* takes it below min_exploration_bonus; a bonus at the minimum stays there
\* under decays; and when from some point on only decays happen, every bonus
\* eventually equals min_exploration_bonus for good.
DecayStep ==
    decay_exploration_bonuses =>
        \A s \in TrackedStates :
            /\ exploration_bonuses'[s] <= exploration_bonuses[s]
            /\ exploration_bonuses'[s] >= min_exploration_bonus
            /\ exploration_bonuses[s] = min_exploration_bonus
                   => exploration_bonuses'[s] = min_exploration_bonus
AllAtFloor == \A s \in TrackedStates : exploration_bonuses[s] = min_exploration_bonus
C15_UnvisitedRate ==
    tracker /\ adaptive_learning_rate =>
        \A s \in TrackedStates, base \in BaseRates \ {0} :
            /\ visit_counts[s] = 0 => get_state_learning_rate(s, base) = 2 * base
            /\ visit_counts[s] > 0 =>
                   /\ get_state_learning_rate(s, base) < 2 * base
                   /\ get_state_learning_rate(s, base) >= base
\* ---------------------------------------------------------------- C16
\* C16: prefetch_state_data and warm_up_caches are unobservable: what every
\* later get, max and best query returns is what it returns when the hint is
\* omitted, so a hint changes neither the table contents nor the result any
\* cached query would give.
MaxSeen(s) ==
    IF cache_on /\ cache_valid[s]
    THEN IF max_q_cache[s] = Garbage THEN AnyFloat ELSE {max_q_cache[s]}
    ELSE {ComputeMaxQ(s)}
BestSeen(s) ==
    IF cache_on /\ cache_valid[s]
    THEN IF best_action_cache[s] = Garbage THEN AnyInt ELSE {best_action_cache[s]}
    ELSE {ComputeBestAction(s)}
Observable == <<data, [s \in States |-> MaxSeen(s)], [s \in States |-> BestSeen(s)]>>
HintStep ==
    \/ \E s \in StateArgs : prefetch_state_data(s)
    \/ \E n \in 1 .. MaxBatch : \E likely_states \in [1 .. n -> StateArgs] :
            warm_up_caches(likely_states)
C16_HintsUnobservable == [][HintStep => Observable' = Observable]_vars
\* ---------------------------------------------------------------- C17
\* C17: on every list of in-range entries, repeats included,
\* batch_update_q_values leaves the table and the validity flags as
\* set_q_value_fast on each entry in order does, batch_get_q_values returns
\* what get_q_value_fast returns for each entry, and batch_get_max_q_values
\* returns the values and leaves the caches as get_max_q_value_cached on each
\* state in order does.
InRangeEntries == [state : States, action : Actions, value : QValues]
InRangeLists(S) == UNION {[1 .. n -> S] : n \in 1 .. MaxBatch}
\* the table and flags after one set_q_value_fast
ScalarSet(t, e) ==
    <<[t[1] EXCEPT ![QIndex(e.state, e.action)] = e.value],
      IF cache_on THEN [t[2] EXCEPT ![e.state] = FALSE] ELSE t[2]>>
RECURSIVE ScalarSets(_, _, _)
ScalarSets(t, entries, i) ==
    IF i > Len(entries) THEN t ELSE ScalarSets(ScalarSet(t, entries[i]), entries, i + 1)
\* the caches and the values so far after one get_max_q_value_cached
ScalarGetMax(t, state) ==
    IF cache_on /\ t[2][state]
    THEN <<t[1], t[2], Append(t[3], t[1][state])>>
    ELSE <<IF cache_on THEN [t[1] EXCEPT ![state] = ComputeMaxQ(state)] ELSE t[1],
           IF cache_on THEN [t[2] EXCEPT ![state] = TRUE] ELSE t[2],
           Append(t[3], ComputeMaxQ(state))>>
RECURSIVE ScalarGetMaxes(_, _, _)
ScalarGetMaxes(t, states, i) ==
    IF i > Len(states) THEN t ELSE ScalarGetMaxes(ScalarGetMax(t, states[i]), states, i + 1)
C17_BatchEqualsScalar ==
    qtable =>
        /\ \A entries \in InRangeLists(InRangeEntries) :
               /\ BatchStore(data, cache_valid, entries, 1)
                      = ScalarSets(<<data, cache_valid>>, entries, 1)
               /\ BatchValues(data, entries)
                      = [i \in 1 .. Len(entries) |->
                            FastValue(entries[i].state, entries[i].action)]
        /\ \A states \in InRangeLists(States) :
               BatchMax(max_q_cache, cache_valid, <<>>, states, 1)
                   = ScalarGetMaxes(<<max_q_cache, cache_valid, <<>>>>, states, 1)
\* a batch update stored a value, a batch max filled the cache of the first
\* row without a best action, and a batch get returned two values
C17_Witness ==
    /\ qtable /\ cache_on
    /\ FastValue(1, 1) = MaxQ
    /\ cache_valid[0] /\ best_action_cache[0] = Garbage
    /\ ret = Ret(<<MaxQ, Zero>>)
\* ---------------------------------------------------------------- C18
\* C18: for an in-range state, select_greedy_action, simd_argmax_in_row and
\* get_best_action_cached on a cache miss return the smallest action index
\* whose value is the row maximum, also when all values of the row are equal;
\* for an out-of-range state they return action 0.
OutOfRange(s) == s < 0 \/ s >= NumStates
AgentRow(state) == [a \in Actions |-> q_table[state][a]]
CacheMiss(s) == ~(cache_on /\ cache_valid[s])
GreedyStep ==
    \A s \in StateArgs :
        /\ agent /\ select_greedy_action(s) =>
               ret' = Ret(IF OutOfRange(s) THEN 0 ELSE LowestArgmax(AgentRow(s)))
        /\ qtable /\ get_best_action_cached(s) /\ (OutOfRange(s) \/ CacheMiss(s)) =>
               ret' = Ret(IF OutOfRange(s) THEN 0 ELSE LowestArgmax(Row(s)))
SimdArgmaxLowest ==
    qtable => \A s \in StateArgs :
        simd_argmax_in_row(s) = IF OutOfRange(s) THEN 0 ELSE LowestArgmax(Row(s))
C18_GreedyTieBreak == []SimdArgmaxLowest /\ [][GreedyStep]_vars
\* a greedy query answered 0 on a row whose values are equal and not zero
C18_Witness ==
    /\ agent
    /\ \A a \in Actions : q_table[1][a] = QScale
    /\ ret = Ret(0)
\* ---------------------------------------------------------------- C19
\* C19: a decay_epsilon call sets epsilon to max(epsilon_min, epsilon *
\* epsilon_decay), so epsilon >= epsilon_min after it; no other training step
\* (select_action, select_action_with_priority, update_q_value,
\* update_q_value_with_priority, replay_batch_experiences) changes epsilon.
EpsilonStep ==
    /\ agent /\ decay_epsilon =>
           /\ epsilon' = Max(epsilon_min, FMul(epsilon, epsilon_decay, EpsilonOne))
           /\ epsilon' >= epsilon_min
    /\ epsilon' # epsilon => decay_epsilon
    /\ UNCHANGED <<epsilon_decay, epsilon_min>>
C19_EpsilonDecay == [][EpsilonStep]_vars
\* epsilon has decayed to its minimum on an agent that has learned, whose
\* last choice was recorded by the tracker
C19_Witness ==
    /\ agent /\ epsilon = epsilon_min /\ epsilon_min = 100
    /\ q_table[0][0] # Zero /\ q_table[1 % NumStates][1 % NumActions] # Zero
    /\ tracker /\ total_visits > 0
\* ---------------------------------------------------------------- C20
\* C20: with in-range indices and a tracker, update_q_value_with_priority
\* sets Q(state, action) to Q + (learningRate * state_learning_rates[state]) *
\* ((reward + exploration_bonuses[state]) + (done ? 0 : discount * max_a
\* Q(next_state, a)) - Q), changes no other entry, and leaves the tracker as
\* it is.
AdaptiveStep ==
    \A s \in States, a \in Actions, n \in States, r \in Rewards, d \in BOOLEAN :
        (agent /\ tracker /\ update_q_value_with_priority(s, a, r, n, d)) =>
            /\ q_table'[s][a] =
                   Bellman(q_table, s, a,
                           r + BonusAsReward(exploration_bonuses[s]), n, d,
                           FMul(learning_rate, state_learning_rates[s], BonusOne),
                           discount_factor, QScale)
            /\ \A s2 \in States, a2 \in Actions :
                   <<s2, a2>> # <<s, a>> => q_table'[s2][a2] = q_table[s2][a2]
            /\ UNCHANGED trackerVars
C20_AdaptiveUpdate == [][AdaptiveStep]_vars
\* a visited state with a raised rate and a lowered bonus was updated to a
\* value above the plain reward
C20_Witness ==
    /\ agent /\ tracker /\ adaptive_learning_rate
    /\ visit_counts[0] > 0
    /\ state_learning_rates[0] > BonusOne
    /\ exploration_bonuses[0] < BonusOne
    /\ q_table[0][0] > QScale
    /\ last_action = 0 /\ ret = NoRet
\* ---------------------------------------------------------------- C23
\* C23: immediately after every add_priority_experience, whatever adds and
\* update_experience_priorities calls came before (filling or steady state),
\* max_priority equals the maximum of priorities[0..size).
\* a step that advances global_step is an add_priority_experience
Added == buffer /\ global_step' # global_step
TopPriority == SetMax({priorities[i] : i \in Occupied})
C23_MaxExactAfterAdd ==
    [][ Added => max_priority' = TopPriority' ]_vars
\* as the code has it: exact after an add into an empty or a full buffer, and
\* after an add that found max_priority exact; otherwise the larger of the
\* new priority and the old max_priority, an upper bound
WasExact == size = 0 \/ size >= capacity \/ max_priority = TopPriority
C23_MaxAfterAdd ==
    [][ Added =>
          /\ WasExact => max_priority' = TopPriority'
          /\ ~WasExact =>
                max_priority' = Max(max_priority, priorities'[current_index])
          /\ max_priority' >= TopPriority' ]_vars
\* a full buffer that wrapped around, with a slot below the exact maximum
C23_Witness ==
    /\ buffer /\ size = capacity /\ global_step > capacity
    /\ max_priority = TopPriority
    /\ \E i \in Occupied : priorities[i] < max_priority
\* ---------------------------------------------------------------- C25
\* C25: in every state with size > 0 reached by add_priority_experience and
\* update_experience_priorities, max_priority >= priorities[i] for every
\* occupied slot i, so the ratio priorities[i] / max_priority read by
\* calculate_importance_weight is at most 1.
C25_MaxUpperBound ==
    buffer /\ size > 0 =>
        /\ max_priority > 0
        /\ \A i \in Occupied : max_priority >= priorities[i]
\* the top priority is held by a slot that is not the newest, over a lower one
C25_Witness ==
    /\ buffer /\ size > 1
    /\ \E i \in Occupied :
          /\ experiences[i].priority = max_priority
          /\ \A j \in Occupied \ {i} : priorities[j] < max_priority
          /\ experiences[i].timestamp < global_step - 1
          /\ Abs(experiences[i].td_error) = MaxTd
\* ---------------------------------------------------------------- C26
\* C26: after n add_priority_experience calls on a buffer of capacity C the
\* occupied slots hold exactly the last min(n, C) added transitions, with
\* state, action, reward, next_state and done as inserted, the k-th add
\* (0-based) carrying timestamp k; in steady state an add overwrites the slot
\* with the smallest timestamp; sampling, priority updates and beta updates
\* do not change which transitions are stored.
FieldsOf(e) == <<e.state, e.action, e.reward, e.next_state, e.done>>
FieldsAsAdded(tr) == <<tr.state, tr.action, tr.reward, tr.next_state, tr.done>>
\* global_step counts the adds: the stored timestamps are the last `size` ones
LastAdded ==
    /\ size = Min(global_step, capacity)
    /\ \A i \in Occupied :
          /\ experiences[i].timestamp \in global_step - size .. global_step - 1
          /\ experiences[i].timestamp % capacity = i
          /\ \E tr \in Transitions : FieldsOf(experiences[i]) = FieldsAsAdded(tr)
AddStores(tr) ==
    /\ FieldsOf(experiences'[current_index]) = FieldsAsAdded(tr)
    /\ experiences'[current_index].timestamp = global_step
    /\ \A s \in Slots \ {current_index} : experiences'[s] = experiences[s]
    /\ size >= capacity =>
          \A j \in Occupied :
              experiences[current_index].timestamp <= experiences[j].timestamp
StoredUnchanged ==
    /\ size' = size /\ current_index' = current_index
    /\ \A s \in Slots : TransitionOf(experiences'[s]) = TransitionOf(experiences[s])
C26_FifoEviction ==
    /\ [](buffer /\ capacity > 0 => LastAdded)
    /\ [][ buffer /\ capacity > 0 =>
             /\ \A tr \in Transitions, td \in TdErrors :
                   add_priority_experience(tr, td) => AddStores(tr)
             /\ global_step' = global_step => StoredUnchanged ]_vars
\* a full buffer whose slot 0 was overwritten by the add after the last slot
C26_Witness ==
    /\ buffer /\ capacity > 1 /\ size = capacity
    /\ experiences[0].timestamp = capacity
    /\ experiences[capacity - 1].timestamp = capacity - 1
\* ---------------------------------------------------------------- C28
\* C28: for every configuration with betaStart <= betaEnd <= 1.0 and
\* annealSteps > 0, beta is priority_beta_end after beta_anneal_steps calls
\* of update_beta and never exceeds priority_beta_end, however many calls
\* follow.
EndsBelowOne(cfg) ==
    /\ cfg.priority_beta_start <= cfg.priority_beta_end
    /\ cfg.priority_beta_end <= BetaOne
    /\ cfg.beta_anneal_steps > 0
C28_BetaStopsAtEnd ==
    buffer /\ EndsBelowOne(config) =>
        /\ BetaAfter(config, config.beta_anneal_steps) = config.priority_beta_end
        /\ beta <= config.priority_beta_end
\* ---------------------------------------------------------------- C29
\* C29: the experiences returned by one sample_priority_batch call keep their
\* contents across any later sample_priority_batch call, so a caller holding
\* two sampled batches sees two independent results.
\* every returned batch starts at the first element of the static array, which
\* a caller of an earlier call still reads
C29_BatchesIndependent ==
    [][ batch # <<>> => batch'[1] = batch[1] ]_vars
\* ---------------------------------------------------------------- C27
\* C27: in every tracker state reached by update_state_visit,
\* decay_exploration_bonuses and reset_state_visit_tracker, visit_priorities[s]
\* is what update_state_priorities would compute from the current visit_counts
\* and exploration_bonuses (1.0 everywhere when all counts are equal), so
\* select_priority_state returns the lowest-index argmax of the up-to-date
\* priority.
FreshPriorities == StatePriorities(visit_counts, exploration_bonuses)
FreshPriorityState ==
    CHOOSE b \in TrackedStates :
        /\ \A i \in TrackedStates : FreshPriorities[i] <= FreshPriorities[b]
        /\ \A i \in TrackedStates : i < b => FreshPriorities[i] < FreshPriorities[b]
C27_PrioritiesFresh ==
    tracker =>
        /\ \A s \in TrackedStates : visit_priorities[s] = FreshPriorities[s]
        /\ select_priority_state = FreshPriorityState
\* ---------------------------------------------------------------- C24
\* C24: update_state_visit on an in-range state adds exactly one to that
\* state's visit_counts entry and to total_visits and changes no other state's
\* count, bonus or multipliers; on an out-of-range state it changes nothing;
\* so in every state reached by update_state_visit, decay_exploration_bonuses,
\* select_action_with_priority and reset_state_visit_tracker, total_visits is
\* the sum of visit_counts over all states.
RECURSIVE SumCounts(_)
SumCounts(n) == IF n = 0 THEN 0 ELSE visit_counts[n - 1] + SumCounts(n - 1)
VisitCounted(s) ==
    IF tracker /\ s \in TrackedStates
    THEN /\ visit_counts'[s] = visit_counts[s] + 1
         /\ total_visits' = total_visits + 1
         /\ \A o \in TrackedStates \ {s} :
               /\ visit_counts'[o] = visit_counts[o]
               /\ exploration_bonuses'[o] = exploration_bonuses[o]
               /\ state_epsilons'[o] = state_epsilons[o]
               /\ state_learning_rates'[o] = state_learning_rates[o]
    ELSE UNCHANGED trackerVars
C24_VisitAccounting ==
    /\ [](tracker => total_visits = SumCounts(NumTracked))
    /\ [][ \A s \in TrackedArgs : update_state_visit(s) => VisitCounted(s) ]_vars
\* two states visited, the last visit made by select_action_with_priority
C24_Witness ==
    /\ tracker /\ ret # NoRet /\ total_visits >= 2
    /\ \E s \in TrackedStates, o \in TrackedStates :
          s # o /\ visit_counts[s] > 0 /\ visit_counts[o] > 0
\* ---------------------------------------------------------------- C21
\* C21: replay_batch_experiences takes the batch in index order and sets, for
\* each experience, Q(state, action) to Q + (learningRate * w_i) * (reward +
\* (done ? 0 : discount * max_a Q(next_state, a)) - Q), computed on the table
\* as the preceding experiences of the batch left it; for every batch of
\* in-range experiences with all weights 1.0 the resulting table is the one
\* that update_q_value, called on the same experiences in the same order,
\* produces.
InRangeExperiences ==
    {[state |-> s, action |-> a, reward |-> r, next_state |-> n, done |-> d] :
        s \in States, a \in Actions, r \in Rewards, n \in States, d \in BOOLEAN}
Batches(S) == UNION {[1 .. n -> S] : n \in 1 .. MaxSample}
\* the table after the experiences from the i-th on, each with the Bellman
\* update at rate learningRate * w_i
RECURSIVE Replayed(_, _, _, _)
Replayed(table, exps, weights, i) ==
    IF i > Len(exps) THEN table
    ELSE LET e == exps[i]
             q == Bellman(table, e.state, e.action, e.reward, e.next_state, e.done,
                          FMul(learning_rate, weights[i], QScale),
                          discount_factor, QScale)
         IN  Replayed([table EXCEPT ![e.state][e.action] = q], exps, weights, i + 1)
\* the table after update_q_value on the experiences from the i-th on
RECURSIVE Updated(_, _, _)
Updated(table, exps, i) ==
    IF i > Len(exps) THEN table
    ELSE LET e == exps[i]
             q == Bellman(table, e.state, e.action, e.reward, e.next_state, e.done,
                          learning_rate, discount_factor, QScale)
         IN  Updated([table EXCEPT ![e.state][e.action] = q], exps, i + 1)
AllOnes(exps) == [i \in DOMAIN exps |-> QScale]
ReplayOf(exps, w) == ReplayLoop(q_table, exps, [i \in DOMAIN exps |-> w], 1)
C21_ReplayEqualsUpdates ==
    /\ [](agent =>
            \A exps \in Batches(InRangeExperiences) :
                /\ ReplayOf(exps, QScale) = Updated(q_table, exps, 1)
                /\ \A w \in ReplayWeights :
                      ReplayOf(exps, w) =
                          Replayed(q_table, exps, [i \in DOMAIN exps |-> w], 1))
    /\ [][ \A exps \in Batches(LearnEntries \cap InRangeExperiences), w \in ReplayWeights :
             replay_batch_experiences(exps, [i \in DOMAIN exps |-> w])
                 => q_table' = Replayed(q_table, exps, [i \in DOMAIN exps |-> w], 1)
         ]_vars
    /\ [][ \A e \in LearnEntries \cap InRangeExperiences :
             update_q_value(e.state, e.action, e.reward, e.next_state, e.done)
                 => q_table' = Updated(q_table, <<e>>, 1) ]_vars
\* a learned table on which a batch of two experiences gives another table
\* than the same experiences in the other order
C21_Witness ==
    /\ agent /\ \E s \in States, a \in Actions : q_table[s][a] # Zero
    /\ \E e \in InRangeExperiences, f \in InRangeExperiences :
          /\ ~e.done
          /\ ReplayOf(<<e, f>>, QScale) # ReplayOf(<<f, e>>, QScale)
          /\ ReplayOf(<<e, f>>, QScale) # q_table
\* ---------------------------------------------------------------- C30
\* C30: after any sequence of heap_insert calls with pairwise distinct
\* experience indices and heap_extract_max calls, every heap position i in
\* [1, size) has priorities[heap[(i-1)/2]] >= priorities[heap[i]];
\* heap_extract_max returns an index whose priority is maximal among the
\* indices in the heap, and -1 when the heap is empty; heap_insert on a full
\* heap changes nothing.
HeapOrdered ==
    \A i \in 1 .. size - 1 :
        priorities[heap[(i - 1) \div 2]] >= priorities[heap[i]]
ExtractsMax ==
    IF size = 0
    THEN ret' = Ret(-1) /\ size' = 0 /\ heap' = heap
    ELSE /\ ret'[1] \in InHeap
         /\ \A j \in InHeap : priorities[ret'[1]] >= priorities[j]
         /\ size' = size - 1
         /\ InHeap' = InHeap \ {ret'[1]}
Inserts(e, p) ==
    IF size >= capacity
    THEN UNCHANGED <<heap, size, priorities>>
    ELSE /\ size' = size + 1
         /\ InHeap' = InHeap \cup {e}
         /\ priorities' = [priorities EXCEPT ![e] = p]
C30_HeapProperty ==
    /\ [](buffer => HeapOrdered /\ Cardinality(InHeap) = size)
    /\ [][heap_extract_max => ExtractsMax]_vars
    /\ [][ \A e \in Slots, p \in HeapPriorities :
             heap_insert(e, p) /\ (size >= capacity \/ e \notin InHeap)
                 => Inserts(e, p) ]_vars
\* a heap of four entries after an extraction, its root above a child
C30_Witness ==
    /\ buffer /\ capacity >= 4 /\ size >= 3 /\ ret # NoRet /\ ret # Ret(-1)
    /\ priorities[heap[0]] > priorities[heap[1]]
    /\ priorities[heap[2]] > priorities[heap[1]]
\* ---------------------------------------------------------------- C22
\* C22: for every row of width >= 8, widths that are no multiple of the 4- or
\* 8-wide lane count included, and every row contents, the vectorized
\* reduction of simd_max_in_row (lane-wise max over the full blocks,
\* horizontal max, scalar tail) returns exactly the value of the scalar
\* running-max loop.
WideMaximum == SetMax({wide.row[a] : a \in 0 .. wide.num_actions - 1})
C22_SimdEqualsScalar ==
    [][ \A lanes \in SimdBuilds :
          simd_max_in_wide_row(lanes) => ~fault' /\ ret' = Ret(WideMaximum) ]_vars
\* the reduction of the rows the vector loads may read
C22_AlignedRows ==
    [][ \A lanes \in SimdBuilds :
          simd_max_in_wide_row(lanes) /\ RowAligned(wide.state, wide.num_actions, lanes)
              => ~fault' /\ ret' = Ret(WideMaximum) ]_vars
====
